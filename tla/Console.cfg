SPECIFICATION Spec
CONSTANTS
  Width = 4
  Height = 2
  TabLength = 2
  Modulus = 16
  Characters <- MCCharacters
  Strings <- MCStrings
  Calls <- MCCalls
  Quiet <- MCQuiet
INVARIANTS TypeOK ScreenShowsTail ArgumentsMatch PrintsWhatIsMeant
PROPERTY CallsReturn
