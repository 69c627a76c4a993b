SPECIFICATION Spec
CONSTANT Cases <- CalmAndBusy
INVARIANTS Complete ReloadRestores NoLeak PageComing
