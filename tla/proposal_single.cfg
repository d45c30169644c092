SPECIFICATION ProposalSpec
CONSTANTS
  c1 = c1
  p1 = p1
  p2 = p2
  Cases = {c1}
  Proposals = {p1, p2}
  CaseOf <- TwoProposals
  Deciders = {d1, d2}
  Reviewers = {r1, r2}
  Appliers = {x1}
  Equipped = {x1}
  Whitelisted = {p1}
  MaxProposalFaults = 2
  NoOne = NoOne
  NoCase = NoCase
INVARIANTS
  ReportsAreTrue
PROPERTIES
  KeepsItsPromises
