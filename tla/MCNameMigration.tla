-------------------------- MODULE MCNameMigration --------------------------
(***************************************************************************)
(* Small instances of NameMigration: the scripts of docs/MIGRATION.md.     *)
(***************************************************************************)
EXTENDS NameMigration, TLC

CONSTANTS ada, mary, alan

MCStored == [s \in Seed |-> IF s = 1 THEN ada ELSE mary]

Up(k) == [do |-> "upgrade", to |-> k]
Down(k) == [do |-> "downgrade", to |-> k]
Enter(p) == [do |-> "phase", to |-> p]
Try(p) == [do |-> "attempt", to |-> p]
Fillup == [do |-> "backfill"]

\* Steps 1 to 5 of the runbook, with the two attempts it shows.
Forward == <<Up(2), Enter("dual_write"), Try("read_new"), Fillup, Enter("read_new"),
             Try("new_only"), Up(3), Enter("new_only"), Up(4)>>

\* As far as the switch of the reads.
ToSwitch == <<Up(2), Enter("dual_write"), Fillup, Enter("read_new")>>

\* As far as new_only.
Relaxed == ToSwitch \o <<Up(3), Enter("new_only")>>

\* Back from new_only to guest_name.
Back == Relaxed \o <<Enter("dual_write")>>

\* The rollbacks of the runbook, one after the other.
Rollback == <<Up(2), Enter("dual_write"), Enter("legacy"), Down(1), Up(2),
              Enter("dual_write"), Fillup, Enter("read_new"), Enter("dual_write"),
              Enter("read_new"), Up(3), Enter("new_only"), Up(4), Down(3),
              Enter("read_new"), Down(2), Enter("dual_write"), Enter("legacy"), Down(1)>>

\* The runbook, with a detour back to legacy after the backfill.
Detour == SubSeq(Forward, 1, 4) \o <<Enter("legacy"), Enter("dual_write")>>
          \o SubSeq(Forward, 5, 9)

\* What .env may say: nothing where the server does not restart, always the same,
\* or the phase that was entered last.
Nothing == [i \in 1 .. Len(Script) + 1 |-> {}]
AlwaysDual == [i \in 1 .. Len(Script) + 1 |-> {"dual_write"}]
LastEntered == [i \in 1 .. Len(Script) + 1 |->
    LET entered == {j \in 1 .. i - 1 : Script[j].do = "phase"}
    IN  IF entered = {} THEN {"legacy"} ELSE {Script[Max(entered)].to}]

Create(n) == [op |-> "create", name |-> n]
Rename(r, n) == [op |-> "rename", row |-> r, name |-> n]
Touch(r) == [op |-> "touch", row |-> r]
Get(r) == [op |-> "get", row |-> r]

\* Two edits of one name, and an edit that finds the name it asks for.
Mixed == [q \in Req |->
    CASE q = 3 -> {Create(alan), Get(1)}
      [] q = 4 -> {Rename(1, mary)}
      [] OTHER -> {Rename(1, alan), Get(1)} \cup {Rename(r, alan) : r \in Req \cap {3}}]

\* Without renames, which go wrong when a phase that reads guest_name follows
\* new_only; edits of something else hold the locks.
NoRenames == [q \in Req |-> IF q = 5 THEN {Get(1), Get(3), Touch(1), Touch(3)} ELSE {Create(alan), Get(1)}]

\* Edits of the party size only.
Touches == [q \in Req |-> {Touch(1)}]
=============================================================================
