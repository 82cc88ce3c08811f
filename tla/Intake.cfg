\* Four names, three events, one failure.
SPECIFICATION FairSpec
CONSTANTS
  img = img  img2 = img2  log = log  junk = junk
  image = image  report = report  single = single  both = both
  NoType = NoType  NoFile = NoFile
  Files = {img, img2, log, junk}
  Rules = {single, both}
  TypeOf <- MCTypeOf
  Inputs <- MCInputs
  Refused <- MCRefused
  MaxEvents = 3
  MaxFailures = 1
INVARIANTS TypeOK InputsArchived DiesOfRepeatsOnly NoTaskTooMany
PROPERTIES FirstArrivalArchived RuleFires
CHECK_DEADLOCK FALSE
