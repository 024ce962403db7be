\* Requests of two browsers, and one change in Mealie itself.
SPECIFICATION FairSpec
CONSTANTS
  Client = {c1, c2}
  Form <- Forms
  Text = {"milk", "peas", ""}
  Spelling = {"kg", "KG"}
  FoldOf <- Fold
  LabelOf <- Labels
  Known = {"dairy"}
  ItemsAtFirst <- TwoItems
  CatalogAtFirst <- OneUnit
  PerPage = 1
  MaxItem = 3
  MaxIngredient = 3
  MaxRequests = 2
  MaxElsewhere = 1
INVARIANTS
  AnswerTells ListIsWhole
PROPERTIES
  OnlyOverlappingUpdatesAreLost OneOfEachName RequestsEnd
\* The browsers send no more than MaxRequests.
CHECK_DEADLOCK FALSE
