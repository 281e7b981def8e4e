CONSTANTS
  j1 = j1
  j2 = j2
  Jobs = {j1, j2}
  Faulty = {j1}
  Web <- MCWeb
  Taxonomy <- MCTaxonomy
  National <- MCNational
  HasPrefix <- MCHasPrefix
  Flaky <- MCFlaky
  Patches <- MCPatches
  Tips <- MCTips
  Property <- MCProperty
  Enabled <- LISTING_SCRAPE_SITES
  Limit = 4
  MaxIndex = 5
  MaxRedirects = 2
  MaxTries = 2
SPECIFICATION Spec
INVARIANTS
  ScanFilesPatch
  FiledAsItIs
  StaysOnSite
  FiledIsAnalysed
CHECK_DEADLOCK FALSE
