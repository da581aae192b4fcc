\* Two agents, two starts of seed_terms.py, the other script, and a crash of a process.
SPECIFICATION FairSpec
CONSTANTS
    Agents = {"main", "sub"}
    Notes <- SomeNotes
    SlugOf <- Slugs
    SeedTerms <- SomeSeeds
    SeedOthers <- SomeOthers
    Terms = {"rag"}
    MaxCalls = 2
    Days = {1}
    MaxSeedings = 2
    MaxCrashes = 1
INVARIANTS TypeOK ReportsTrue
PROPERTIES SeedsYield CallsReturn
