CONSTANTS
  Versions <- MCVersions
  RegCounts <- MCRegCounts
  ParaCounts <- MCParaCounts
SPECIFICATION Spec
INVARIANTS TypeOK SessionAgreed AnswerParsable RefusalVisible SettledOutside
