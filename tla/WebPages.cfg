\* The feed: pages of one post, a post of the user's and one of others, so that a post moves
\* from page to page; one of them is deleted; one like, which overlaps the creation.  The
\* page of a post: two own clicks or comments, so that they overtake each other; one change
\* by others and the deletion of the post.  On either, the API is reached and is not, as
\* often as can be.
CONSTANTS
  Tabs = {"feed", "post"}
  PageSize = 1
  MaxOthersPosts = 1
  MaxDeleted = 1
  MaxTime = 1
  MaxLikes = 1
  Creations = {1}
  Mutations = {1, 2}
  MaxOthers = 1
  Asked = Asked
  None = None
SPECIFICATION TabSpec
INVARIANTS
  TabTypeOK
  ShownOnce
  NothingSkipped
  SettledIsShown
PROPERTY PagesCatchUp
