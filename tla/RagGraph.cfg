SPECIFICATION FairSpec
CONSTANTS
  t1 = t1
  t2 = t2
  t3 = t3
  None = None
  Tasks = {t1, t2, t3}
  AboutProject <- MCAboutProject
  Knowledge = {"about_creator.md"}
  MaxRetries = 3
  MaxRestarts = 1
INVARIANTS
  CallsBounded
  SourcesMatchContext
PROPERTIES
  EveryTaskEnds
