---------------------------- MODULE MCRunCommand ----------------------------
EXTENDS RunCommand

LOCAL Catalog == INSTANCE Commands

MCCommands == Catalog!AllCommands
=============================================================================
