SPECIFICATION LookupSpec
CONSTANTS
  Letters = {"a"}
  MaxPath = 5
  Root = "root"
  Directories = {"root", "dir"}
  Files = {"file"}
  Names <- MCNames
  MaxOps = 5
  MaxChanges = 2
INVARIANTS
  Explained
  PathForms
