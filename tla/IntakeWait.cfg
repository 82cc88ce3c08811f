\* Two names and two events: no rename fails, the Data Manager is slow.
SPECIFICATION FairSpec
CONSTANTS
  img = img  img2 = img2  log = log  junk = junk
  image = image  report = report  single = single  both = both
  NoType = NoType  NoFile = NoFile
  Files = {img, log}
  Rules = {single, both}
  TypeOf <- SmallTypeOf
  Inputs <- MCInputs
  Refused = {}
  MaxEvents = 2
  MaxFailures = 0
PROPERTIES WaitEnds
CHECK_DEADLOCK FALSE
