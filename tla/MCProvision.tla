----------------------------- MODULE MCProvision -----------------------------
EXTENDS Provision

Rename == {"rename"}

\* bounds of the instance: what follows a key that was misread is not looked into, and
\* where there is an old directory to migrate the writers of the settings, which meet
\* the other writers, stay away
KeysAlone == ~misread /\ (legacy.key # NoKey => writer = "idle" /\ conf.file # "bad")
==============================================================================
