---------------------------- MODULE ClientFiles ----------------------------
(***************************************************************************)
(* A file that is open in the editor, and the file tools that read and     *)
(* write it through the editor (crates/cli/src/client_fs.rs, tools.rs).    *)
(*                                                                         *)
(* The file is the set of changes it contains: the user's, numbered, and   *)
(* the tools'.  The editor keeps a buffer with changes the user has not    *)
(* saved.  A request the editor fails, or does not answer in time, falls   *)
(* back to the disk; one not answered in time may have been done, or be    *)
(* done later.  The editor is external.                                    *)
(***************************************************************************)
EXTENDS Naturals, FiniteSets

CONSTANTS
    MaxTyped,   \* changes the user makes
    MaxEdits    \* edits by the tools

ASSUME FilesAssumption == {MaxTyped, MaxEdits} \subseteq Nat

VARIABLES
    can,        \* the capabilities the editor advertised: a subset of {"read", "write"}
    buffer,     \* the editor's text
    disk,       \* the file on disk
    edit,       \* edit_file: [pc, contents]
    late,       \* texts the editor was sent to write and has not written yet
    typed,      \* changes the user made so far
    edits,      \* edits so far
    crossed     \* history variable: see Cross

fileVars == <<can, buffer, disk, edit, late, typed, edits, crossed>>

NoEdit == [pc |-> "idle", contents |-> {}]

Tool(n) == <<"tool", n>>
User(n) == <<"user", n>>

FilesInit ==
    /\ can \in SUBSET {"read", "write"}
    /\ buffer = {} /\ disk = {}
    /\ edit = NoEdit
    /\ late = {}
    /\ typed = 0 /\ edits = 0
    /\ crossed = FALSE

-----------------------------------------------------------------------------
(* The user and the editor.  A buffer without unsaved changes follows the   *)
(* file.                                                                    *)

\* A text that arrives after another was typed, read or written crosses it.
Cross(reason) == crossed' = (crossed \/ reason)

UserTypes ==
    /\ typed < MaxTyped
    /\ typed' = typed + 1
    /\ buffer' = buffer \cup {User(typed + 1)}
    /\ Cross(edit.pc # "idle")
    /\ UNCHANGED <<can, disk, edit, late, edits>>

UserSaves ==
    /\ buffer # disk
    /\ disk' = buffer
    /\ UNCHANGED <<can, buffer, edit, late, typed, edits, crossed>>

EditorWritesLate ==
    \E text \in late :
        /\ late' = late \ {text}
        /\ buffer' = text /\ disk' = text
        /\ Cross(TRUE)
        /\ UNCHANGED <<can, edit, typed, edits>>

-----------------------------------------------------------------------------
(* edit_file *)

\* Mutant: what is read is read from the disk.
ReadDisk ==
    /\ edit.pc = "idle" /\ edits < MaxEdits
    /\ edit' = [pc |-> "write", contents |-> disk]
    /\ edits' = edits + 1
    /\ UNCHANGED <<can, buffer, disk, late, typed, crossed>>

\* Route::read: the editor's copy, or the one on disk.
ReadFile ==
    /\ edit.pc = "idle" /\ edits < MaxEdits
    /\ \/ /\ "read" \in can
          /\ edit' = [pc |-> "write", contents |-> buffer]
          /\ UNCHANGED crossed
       \/ /\ edit' = [pc |-> "write", contents |-> disk]
          /\ Cross(buffer # disk)
    /\ edits' = edits + 1
    /\ UNCHANGED <<can, buffer, disk, late, typed>>

\* EditCall::apply: the text to replace is not there.
EditDoesNotApply ==
    /\ edit.pc = "write"
    /\ edit' = NoEdit
    /\ UNCHANGED <<can, buffer, disk, late, typed, edits, crossed>>

Updated == edit.contents \cup {Tool(edits)}

\* Route::write by the editor: the buffer and the file have the new text.
WriteByEditor ==
    /\ edit.pc = "write" /\ "write" \in can
    /\ buffer' = Updated /\ disk' = Updated
    /\ edit' = NoEdit
    /\ UNCHANGED <<can, late, typed, edits, crossed>>

\* Route::write on disk: the editor cannot, fails, or does not answer in time.
\* The write goes under a buffer that may have unsaved changes.
WriteOnDisk ==
    /\ edit.pc = "write"
    /\ disk' = Updated
    /\ buffer' = IF buffer = disk THEN Updated ELSE buffer
    /\ edit' = NoEdit
    /\ late' \in {late} \cup (IF "write" \in can THEN {late \cup {Updated}} ELSE {})
    /\ UNCHANGED <<can, typed, edits, crossed>>

FilesNext == \/ UserTypes \/ UserSaves \/ EditorWritesLate
             \/ ReadFile \/ EditDoesNotApply \/ WriteByEditor \/ WriteOnDisk

FilesSpec == FilesInit /\ [][FilesNext]_fileVars

-----------------------------------------------------------------------------
(* Properties *)

\* No edit loses what the user typed, saved or not: it is in the editor's
\* buffer.  Excused are edits that cross: the user types during the edit, the
\* file is read on disk behind unsaved changes, or a late write arrives.
TypedTextSurvives == ~crossed => \A n \in 1..typed : User(n) \in buffer
=============================================================================
