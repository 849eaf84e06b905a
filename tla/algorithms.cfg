SPECIFICATION Spec
CONSTANTS
  Templates <- MCTemplates
  PromptKeys <- MCPrompts
  DocTypes = {"bs"}
  Uploads <- MCUploads
  Books <- MCBooks
  CsvFiles <- MCCsvFiles
  Cams <- MCCams
  Texts <- MCTexts
  Cases <- MCCases
  CodeOrder <- MCCodeOrder
INVARIANTS
  TemplatesDrain
  BundlesImport
  UploadsLoseNoRow
  ChunksCover
  UnreviewedTagsAgree
  ExportsShowEverything
CHECK_DEADLOCK FALSE
