------------------------------- MODULE MCMain -------------------------------
(* Small instances of the process: two schedulers as in main.ts.  A file   *)
(* gives every field a value, but in one section, which leaves out all, or *)
(* says 0 or false, or is missing; or its schedulers are listed otherwise. *)
EXTENDS Main

AllOf(value) == [s \in Sections |-> [k \in Fields[s] |-> value]]

Item(name, on) == [name |-> name, enable |-> on]
Both == <<Item("node", TRUE), Item("send_block", TRUE)>>

Schedulings == {
    [enable |-> TRUE, items |-> Both],
    [enable |-> FALSE, items |-> Both],
    [enable |-> Undefined, items |-> Both],
    [enable |-> TRUE, items |-> <<Item("send_block", TRUE), Item("node", TRUE), Item("node", FALSE)>>],
    [enable |-> TRUE, items |-> <<Item("node", FALSE)>> \o Both],
    [enable |-> TRUE, items |-> Undefined],
    Undefined, Null}

File(sections, scheduling) ==
    [s \in Sections \cup {"scheduler"} |-> IF s = "scheduler" THEN scheduling ELSE sections[s]]

MCFiles ==
    {File(AllOf(Given), scheduling) : scheduling \in Schedulings} \cup
    {File([AllOf(Given) EXCEPT ![s] = section], [enable |-> TRUE, items |-> Both]) :
        s \in Sections, section \in {Undefined, Null}} \cup
    {File([AllOf(Given) EXCEPT ![s] = AllOf(value)[s]], [enable |-> TRUE, items |-> Both]) :
        s \in Sections, value \in {Undefined, Falsy}} \cup
    {File([AllOf(Given) EXCEPT !.server.address = NoAddress], [enable |-> TRUE, items |-> Both])}
=============================================================================
