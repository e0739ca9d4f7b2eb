----------------------------- MODULE Categories -----------------------------
(***************************************************************************)
(* The rr_application_categories recording rule (src/constructor/          *)
(* queries.go, lines 619-636) across evaluations.                          *)
(*                                                                         *)
(* The rule adds a nil entry to the in-memory project's                    *)
(* ApplicationCategorySettings for every category of the World that has   *)
(* no entry yet, and if it added one it saves the whole project settings; *)
(* a failed save is only logged.  The in-memory project p is given to the *)
(* rule by its caller, which either loads it from the store before an     *)
(* evaluation or keeps the one it had (the caller is not in the sources). *)
(* The user may set a category's settings through the UI, which writes    *)
(* the store.                                                             *)
(***************************************************************************)
EXTENDS Naturals

CONSTANTS
    Categories,        \* app.Category values
    Missing,           \* no key for the category in the map
    NilSetting,        \* the key maps to nil (what the rule writes)
    Custom,            \* settings the user chose
    ReloadProject,     \* the caller reloads p from the store each time
    EditsDuringEvaluation, \* a UI edit may land between load and save
    MaxSaveFailures, MaxEdits

VARIABLES
    worldCats,     \* the categories of w.Applications
    db,            \* the project settings in the store
    mem,           \* p.Settings.ApplicationCategorySettings in memory
    loaded,        \* the caller has handed p to this evaluation's rule
    edited,        \* categories the user has set (history)
    saveFailures, edits

vars == <<worldCats, db, mem, loaded, edited, saveFailures, edits>>

Init ==
    /\ worldCats \in SUBSET Categories
    /\ db = [c \in Categories |-> Missing]
    /\ mem = db
    /\ loaded = FALSE
    /\ edited = {}
    /\ saveFailures = 0
    /\ edits = 0

\* The caller hands p to the next evaluation: loaded from the store, or
\* the one it used last time.
LoadProject ==
    /\ ~loaded
    /\ mem' = IF ReloadProject THEN db ELSE mem
    /\ loaded' = TRUE
    /\ UNCHANGED <<worldCats, db, edited, saveFailures, edits>>

\* SaveProjectSettings(p): the store takes p's settings whole, or fails.
SaveProjectSettings(new) ==
    \/ db' = new /\ UNCHANGED saveFailures
    \/ /\ saveFailures < MaxSaveFailures
       /\ saveFailures' = saveFailures + 1
       /\ UNCHANGED db

\* Mutant: the `!ok` test dropped: every category of the World is set to nil.
ApplicationCategoriesOverwrite ==
    /\ loaded
    /\ LET added == worldCats
           new == [c \in Categories |-> IF c \in added THEN NilSetting ELSE mem[c]]
       IN /\ mem' = new
          /\ IF added # {} THEN SaveProjectSettings(new)
                           ELSE UNCHANGED <<db, saveFailures>>
    /\ loaded' = FALSE
    /\ UNCHANGED <<worldCats, edited, edits>>

\* Mutant: needSave never set, so nothing is saved.
ApplicationCategoriesNoSave ==
    /\ loaded
    /\ mem' = [c \in Categories |-> IF c \in worldCats /\ mem[c] = Missing
                                    THEN NilSetting ELSE mem[c]]
    /\ loaded' = FALSE
    /\ UNCHANGED <<worldCats, db, edited, saveFailures, edits>>

\* The rule: a nil entry for each category without a key (the map is
\* allocated first when nil); needSave iff one was added; then the save.
ApplicationCategories ==
    /\ loaded
    /\ LET added == {c \in worldCats : mem[c] = Missing}
           new == [c \in Categories |-> IF c \in added THEN NilSetting ELSE mem[c]]
       IN /\ mem' = new
          /\ IF added # {} THEN SaveProjectSettings(new)
                           ELSE UNCHANGED <<db, saveFailures>>
    /\ loaded' = FALSE
    /\ UNCHANGED <<worldCats, edited, edits>>

\* The user sets a category's settings in the UI (written to the store).
UserEdit(c) ==
    /\ EditsDuringEvaluation \/ ~loaded
    /\ edits < MaxEdits
    /\ db' = [db EXCEPT ![c] = Custom]
    /\ edited' = edited \cup {c}
    /\ edits' = edits + 1
    /\ UNCHANGED <<worldCats, mem, loaded, saveFailures>>

Evaluate == LoadProject \/ ApplicationCategories

Next ==
    \/ Evaluate
    \/ \E c \in Categories : UserEdit(c)

\* The constructor evaluates periodically and runs the rule each time.
Spec == Init /\ [][Next]_vars /\ WF_vars(Evaluate)

(***************************************************************************)
(* Properties.                                                             *)
(***************************************************************************)

\* Spec 4.E: the stored project settings eventually hold an entry for every
\* category observed in the World, even when a save fails: the rule's
\* needSave must come back on the next evaluation for a failed save to be
\* retried.
CategoriesPersisted == <>[](\A c \in worldCats : db[c] # Missing)

\* A category the user has configured keeps the user's settings: the
\* rule's read-modify-write of the whole settings never puts back an
\* older value over the user's edit.
UserEditsKept == \A c \in edited : db[c] = Custom

=============================================================================
