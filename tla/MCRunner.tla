------------------------------ MODULE MCRunner ------------------------------
(***************************************************************************)
(* Playbooks for the Runner: every destination and endpoint for a playbook *)
(* of one assertion, every title, and the combinations of two assertions   *)
(* of which the second may repeat the first one's code, in one section or  *)
(* in two, with a script at each place.                                    *)
(***************************************************************************)
EXTENDS Runner

Plain(code) == [code |-> code, elevated |-> FALSE, files |-> {}]

Section(assertions) == [title |-> "good", assertions |-> assertions]

Base(sections) ==
    [title |-> "good", reportDestination |-> "", https |-> None, sections |-> sections]

CONSTANTS A, B

One == Base(<<Section(<<Plain(A)>>)>>)

Delivered ==
    {[One EXCEPT !.reportDestination = d, !.https = h] :
        d \in {"", "folder", "https", "other"}, h \in Endpoints \cup {None}}

Misshaped ==
    {[One EXCEPT !.title = t] : t \in Titles}
    \cup {[One EXCEPT !.sections[1].title = t] : t \in Titles}
    \cup {Base(<<>>), Base(<<Section(<<>>)>>), Base(<<Section(<<Plain(None)>>)>>)}

Paired ==
    UNION {{Base(<<Section(<<Plain(A), Plain(c)>>)>>),
            Base(<<Section(<<Plain(A)>>), Section(<<Plain(c)>>)>>)} : c \in {A, B}}

Scripted ==
    {[One EXCEPT !.sections[1].assertions[1] = [code |-> A, elevated |-> e, files |-> f]] :
        e \in BOOLEAN, f \in {{}, Places} \cup {{p} : p \in Places}}

MCPlaybooks == Delivered \cup Misshaped \cup Paired \cup Scripted

=============================================================================
