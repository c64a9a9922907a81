\* A skill under mints, revisions, exports and sweeps.
CONSTANTS
  r1 = r1
  r2 = r2
  s1 = s1
  s2 = s2
  t1 = t1
  t2 = t2
  p1 = p1
  p2 = p2
  Req <- Reqs
  Sweeper <- Sweepers
  Text <- Texts
  Passage <- Passages
  Excerpt <- Beginnings
  Shown <- InExcerpts
  Contained <- InTexts
  NoText = NoText
  NoKey = NoKey
  Absent = Absent
  Null = Null
  MaxVersion = 3
  MaxEdits = 1
SPECIFICATION SkillSpec
INVARIANT TypeOK
INVARIANT NoLostRevision
INVARIANT BundlesVerify
PROPERTY FlagConverges
