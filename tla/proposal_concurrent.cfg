SPECIFICATION FairProposalSpec
CONSTANTS
  c1 = c1
  p1 = p1
  p2 = p2
  Cases = {c1}
  Proposals = {p1}
  CaseOf <- OneProposal
  Deciders = {d1}
  Reviewers = {r1, r2}
  Appliers = {x1, x2, x3}
  Equipped = {x1, x2}
  Whitelisted = {p1}
  MaxProposalFaults = 2
  NoOne = NoOne
  NoCase = NoCase
INVARIANTS
  ProposalTypeOK
  ReviewedOnce
  ActsOnlyIfApproved
  EffectsAreRecorded
  EffectsAreBounded
PROPERTIES
  CallsReturn
