SPECIFICATION BundleSpec
CONSTANTS
    g1 = g1
    g2 = g2
    gx = gx
    Gate = {g1, g2}
    MaxRuleDepth = 2
    MaxRuleNodes = 4
    RuleNodes <- MCRuleNodes
    Facts <- MCFacts
    Drafts <- MCDrafts
    Beginnings <- MCBeginnings
INVARIANTS
    BooleansAreNotNumbers
