SPECIFICATION GatewaySpec
CONSTANTS
  Key = {1, 2, 3}
  PageMax = 2
  FolderOf <- MCFolderOf
  Selection <- MCSelection
  Inputs <- MCInputs
  Admin = {"a"}
  MaxSecret = 2
  MaxUploads = 1
  Hazards = {}
INVARIANT ListingIsExact
INVARIANT SecretsAreCurrent
 
