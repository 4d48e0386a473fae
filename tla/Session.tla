------------------------------ MODULE Session --------------------------------
(***************************************************************************)
(* The interactive client (apps/logpose-cli/src): the screens of           *)
(* InteractiveApp and the keys that change them, the workflows a form      *)
(* builds an action from, and the calls that executing the action makes.   *)
(* Text, cursors, tabs and the contents of the pickers are left out.       *)
(***************************************************************************)
EXTENDS Naturals, Sequences

\* execute_action by workflow: the client's methods, in order.  A put fetches the schema and
\* then writes its input in batches, two here.
CollectionWorkflows ==
    [CollectionCreate |-> <<"create_collection">>, CollectionShow |-> <<"collection">>,
     CollectionStats |-> <<"stats">>, CollectionPlacement |-> <<"collection_placement">>,
     CollectionFlush |-> <<"flush">>, CollectionCompact |-> <<"compact">>]
RecordWorkflows ==
    [RecordPut |-> <<"collection", "upsert", "upsert">>, RecordDelete |-> <<"collection", "delete">>,
     Query |-> <<"collection", "query">>]
RuntimeWorkflows ==
    [InspectManifest |-> <<"inspect">>, InspectWal |-> <<"inspect">>, InspectMaintenance |-> <<"inspect">>,
     InspectSegment |-> <<"inspect">>, Status |-> <<"runtime_status">>, ConfigShow |-> <<>>]
WorkflowTables == {CollectionWorkflows, RecordWorkflows, RuntimeWorkflows}
WorkflowKinds ==
    [workflow \in UNION {DOMAIN table : table \in WorkflowTables} |->
        (CHOOSE table \in WorkflowTables : workflow \in DOMAIN table)[workflow]]

\* from_workflow: the workflows whose form has no field, and those whose form starts on the
\* collection field, where a picker opens by itself if the session knows a collection.
Fieldless == {"Status", "ConfigShow"}
StartsOnCollection == DOMAIN WorkflowKinds \ (Fieldless \union {"CollectionCreate"})

\* confirmation_prompt.
NeedsYes == {"CollectionFlush", "CollectionCompact", "RecordDelete"}

\* InteractiveApp.  `form` is the workflow of the form, "none" without one; `closed` is no session.
Screens == {"closed", "Home", "Dashboard", "Form", "Confirm", "Running", "Result"}
Closed ==
    [screen |-> "closed", form |-> "none", picker |-> FALSE, yes |-> FALSE, result |-> FALSE,
     suggestions |-> FALSE, exit_after_running |-> FALSE, launched |-> "none"]

\* A key is a function from a session to the sessions it may lead to: a set, because what a
\* field holds and what the pickers list is left open.  `launched` names the action of a key
\* that calls launch_action; `closed` stands for should_exit.
On(app, screen) == [app EXCEPT !.screen = screen]
Launch(app, workflow) == [app EXCEPT !.screen = "Running", !.launched = workflow, !.yes = FALSE]

\* open_picker_for_current_field: the current field may have nothing to pick from.
OpenPicker(app) == IF app.form = "none" THEN {app} ELSE {app, [app EXCEPT !.picker = TRUE]}

\* handle_picker_key: Esc and Enter on a choice close it; no other key reaches the screen.
PickerKeys(app) == {[app EXCEPT !.picker = FALSE]}

\* handle_home_key.
HomeKeys(app) == {Closed, On(app, "Dashboard")} \union (IF app.result THEN {On(app, "Result")} ELSE {})

\* open_form, and Enter on the dashboard: a form without fields is taken and launched at once.
OpenForm(app, workflow) ==
    IF workflow \in Fieldless
    THEN Launch([app EXCEPT !.form = "none"], workflow)
    ELSE [app EXCEPT !.screen = "Form", !.form = workflow,
                     !.picker = workflow \in StartsOnCollection /\ app.suggestions]

DashboardKeys(app, workflows) ==
    {Closed, On(app, "Home")} \union (IF app.result THEN {On(app, "Result")} ELSE {})
        \union {OpenForm(app, workflow) : workflow \in workflows}

\* handle_form_key: Enter builds the action, which a bad field refuses, and asks or launches.
\* After a form without fields failed there is no form on this screen.
Submit(app) ==
    IF app.form \in NeedsYes THEN [app EXCEPT !.screen = "Confirm", !.yes = FALSE] ELSE Launch(app, app.form)
FormKeys(app) ==
    {On(app, "Dashboard")} \union OpenPicker(app) \union (IF app.result THEN {On(app, "Result")} ELSE {})
        \union (IF app.form = "none" THEN {} ELSE {Submit(app)})

\* handle_confirm_key.
ConfirmKeys(app) ==
    {[app EXCEPT !.yes = TRUE], [app EXCEPT !.yes = FALSE], [app EXCEPT !.screen = "Form", !.yes = FALSE]}
        \union (IF app.yes THEN {Launch(app, app.form)} ELSE {})

\* handle_key while an action runs: a quit waits for it.
QuitAtOnce(app) == {Closed}

RunningKeys(app) == {[app EXCEPT !.exit_after_running = TRUE]}

\* return_from_result, and handle_result_key.
Back(app) == On(app, IF app.form = "none" THEN "Dashboard" ELSE "Form")
ResultKeys(app) == {Closed, On(app, "Home"), Back(app)} \union OpenPicker(Back(app))

Keys(app, workflows) ==
    CASE app.picker -> PickerKeys(app)
      [] ~app.picker /\ app.screen = "Home" -> HomeKeys(app)
      [] ~app.picker /\ app.screen = "Dashboard" -> DashboardKeys(app, workflows)
      [] ~app.picker /\ app.screen = "Form" -> FormKeys(app)
      [] ~app.picker /\ app.screen = "Confirm" -> ConfirmKeys(app)
      [] ~app.picker /\ app.screen = "Running" -> RunningKeys(app)
      [] ~app.picker /\ app.screen = "Result" -> ResultKeys(app)
      [] OTHER -> {}

\* apply_tui_event on ActionComplete.
Completed(app, succeeded, suggestions) ==
    IF app.exit_after_running
    THEN Closed
    ELSE [app EXCEPT !.screen = IF succeeded THEN "Result" ELSE "Form", !.result = @ \/ succeeded,
                     !.suggestions = suggestions, !.launched = "none"]
=============================================================================
