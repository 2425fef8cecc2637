-------------------------- MODULE MCInvokeAction ---------------------------
(* TLC instance of InvokeAction: a manager whose standard factory reset     *)
(* shares its short name with an action of the vendor, and a test event.    *)
EXTENDS InvokeAction

CONSTANTS uManager, uOem, uControl, uEvent

MCTypes ==
    {"#Manager.ResetToDefaults", "#NvidiaManager.ResetToDefaults",
     "#Control.ResetToDefaults", "#EventService.SubmitTestEvent", "Undotted"}

MCShortName ==
    [t \in MCTypes \ {"Undotted"} |->
        IF t = "#EventService.SubmitTestEvent" THEN "SubmitTestEvent"
        ELSE "ResetToDefaults"]

MCActionPolicy ==
    [t \in {"#Manager.ResetToDefaults", "#Control.ResetToDefaults",
            "#EventService.SubmitTestEvent"} |->
        IF t = "#Manager.ResetToDefaults" THEN "irreversible"
        ELSE IF t = "#Control.ResetToDefaults" THEN "destructive"
        ELSE "reversible"]

MCPerforms ==
    [u \in {uManager, uOem, uControl, uEvent} |->
        IF u = uManager THEN "#Manager.ResetToDefaults"
        ELSE IF u = uOem THEN "#NvidiaManager.ResetToDefaults"
        ELSE IF u = uControl THEN "#Control.ResetToDefaults"
        ELSE "#EventService.SubmitTestEvent"]

Manager == [type |-> "#Manager.ResetToDefaults", target |-> uManager]
Vendor == [type |-> "#NvidiaManager.ResetToDefaults", target |-> uOem]
Control == [type |-> "#Control.ResetToDefaults", target |-> uControl]
Event == [type |-> "#EventService.SubmitTestEvent", target |-> uEvent]
Mute(e) == [e EXCEPT !.target = NoTarget]
Undotted == [type |-> "Undotted", target |-> NoTarget]

\* No action, one, two under one short name in either order, an entry
\* without a target that hides another, and an entry without a short name.
MCBlocks ==
    {<<>>, <<Event, Manager, Vendor>>, <<Vendor, Manager>>, <<Control, Vendor>>,
     <<Manager, Mute(Vendor)>>, <<Mute(Manager), Control>>, <<Undotted, Event>>}
=============================================================================
