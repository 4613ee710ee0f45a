SPECIFICATION ContentSpec
CHECK_DEADLOCK FALSE
CONSTANTS
    c1 = c1
    Modules = {"m1"}
    ModuleOf <- MCModuleOf
    Changes <- MCChanges
    Uploads <- MCUploads
    Curators = {c1}
INVARIANTS
    ItemsCarryPayload
