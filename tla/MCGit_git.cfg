SPECIFICATION Spec
CONSTANTS
  Path = {"a", "b"}
  Content = {"1", "2"}
  Branch = {"main", "dev"}
  Repos <- AllRepos
  MaxCommits = 4
  MaxSteps = 4
  None = None
  Marked = Marked
  Unmerged = Unmerged
PROPERTY WorkKept
PROPERTY CommitsKept
 
PROPERTY CleanStays
PROPERTY StashKept
CHECK_DEADLOCK FALSE
