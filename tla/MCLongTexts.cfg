SPECIFICATION LongSpec
CONSTANTS
  en = en
  fr = fr
  de = de
  Languages = {en, fr, de}
  NoLanguage = NoLanguage
  Texts <- MCTexts
  Jobs <- MCJobs
  ParagraphTarget = 4
  MaxChars = 5
INVARIANTS
  JoinedExactly
  ChunksBounded
  PartsInPlace
  CompleteUnlessError
  ErrorsHaveCauses
  TextSurvives
