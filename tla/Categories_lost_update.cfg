CONSTANTS
    web = web  db_cat = db_cat  monitoring = monitoring
    Categories = {web, db_cat, monitoring}
    Missing = Missing  NilSetting = NilSetting  Custom = Custom
    ReloadProject = TRUE
    EditsDuringEvaluation = TRUE
    MaxSaveFailures = 2
    MaxEdits = 2
SPECIFICATION Spec
INVARIANTS UserEditsKept
