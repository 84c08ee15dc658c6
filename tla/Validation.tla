----------------------------- MODULE Validation -----------------------------
(***************************************************************************)
(* Playbooks and their validation (playbook/validator.go), their need for  *)
(* elevation (playbook_elevation.go) and the inlining of external scripts  *)
(* (internal/transpile/preprocess.go), as operators.                       *)
(*                                                                         *)
(* A text is told apart only as far as the validator does: a title is      *)
(* missing, short or good, a URL missing, insecure or secure.  An          *)
(* assertion is its code, whether one of its commands requires elevation,  *)
(* and the places in its commands that name an external script.            *)
(***************************************************************************)
EXTENDS Naturals, Sequences

CONSTANTS
    Codes, \* assertion codes
    None   \* an absent code, and a playbook without HTTPS configuration

\* The places where a playbook can name an external script: in a command of a phase, in an
\* evaluation rule, or in a gather specification.
CommandPlaces(phase) == {<<phase, "funcFile">>, <<phase, "shellFuncFile">>}
RulePlaces == {<<"cmds", "stdOutRule">>, <<"cmds", "stdErrRule">>}
GatherPlaces == {"preCmds", "cmds", "postCmds"} \X {"gather"}
Places == (UNION {CommandPlaces(p) : p \in {"preCmds", "cmds", "postCmds"}})
          \cup RulePlaces \cup GatherPlaces

Titles == {"missing", "short", "good"}
Endpoints == [url : {"missing", "insecure", "secure"},
              format : {"", "multipart", "json", "other"}]
Assertions == [code : Codes \cup {None}, elevated : BOOLEAN, files : SUBSET Places]
Sections == [title : Titles, assertions : Seq(Assertions)]
AllPlaybooks ==
    [title : Titles, reportDestination : {"", "folder", "https", "other"},
     https : Endpoints \cup {None}, sections : Seq(Sections)]

\* The positions of the assertions, <<section, assertion>>, and what is there.
Positions(pb) ==
    UNION {{i} \X (1..Len(pb.sections[i].assertions)) : i \in 1..Len(pb.sections)}
At(pb, pos) == pb.sections[pos[1]].assertions[pos[2]]

Before(p, q) == p[1] < q[1] \/ (p[1] = q[1] /\ p[2] < q[2])

-----------------------------------------------------------------------------
(* Validate.  An error is <<path, code>>.                                  *)

TitleErrors(path, title) ==
    CASE title = "missing" -> {<<path, "MISSING_TITLE">>}
      [] title = "short" -> {<<path, "INVALID_TITLE">>}
      [] OTHER -> {}

EndpointErrors(https) ==
    IF https = None THEN {<<"https", "MISSING_HTTPS_CONFIG">>}
    ELSE (CASE https.url = "missing" -> {<<"https.url", "MISSING_URL">>}
            [] https.url = "insecure" -> {<<"https.url", "INVALID_URL">>}
            [] OTHER -> {})
         \cup IF https.format = "other" THEN {<<"https.format", "INVALID_FORMAT">>} ELSE {}

DestinationErrors(pb) ==
    CASE pb.reportDestination = "https" -> EndpointErrors(pb.https)
      [] pb.reportDestination = "other" -> {<<"reportDestination", "INVALID_DESTINATION">>}
      [] OTHER -> {}

FaultySeen(pb, p, q) == p[1] = q[1] /\ Before(p, q)

\* seenCodes is shared by the sections: p's code is in it when q is looked at.
Seen(pb, p, q) == Before(p, q)

CodeErrors(pb, q) ==
    IF At(pb, q).code = None THEN {<<q, "MISSING_CODE">>}
    ELSE IF \E p \in Positions(pb) : Seen(pb, p, q) /\ At(pb, p).code = At(pb, q).code
         THEN {<<q, "DUPLICATE_CODE">>} ELSE {}

\* What an agent refuses.  Gather specifications are looked at in main commands only.
Prohibited == Places \ {<<"preCmds", "gather">>, <<"postCmds", "gather">>}

FileErrors(pb, q, isAgent) ==
    IF isAgent
    THEN {<<<<q, f>>, "PROHIBITED_AGENT_FUNC">> : f \in At(pb, q).files \cap Prohibited}
    ELSE {}

SectionErrors(pb, i) ==
    TitleErrors(<<"sections", i>>, pb.sections[i].title)
    \cup IF pb.sections[i].assertions = <<>> THEN {<<i, "EMPTY_ASSERTIONS">>} ELSE {}

Validate(pb, isAgent) ==
    TitleErrors("title", pb.title)
    \cup DestinationErrors(pb)
    \cup (IF pb.sections = <<>> THEN {<<"sections", "EMPTY_SECTIONS">>} ELSE {})
    \cup (UNION {SectionErrors(pb, i) : i \in 1..Len(pb.sections)})
    \cup (UNION {CodeErrors(pb, q) \cup FileErrors(pb, q, isAgent) : q \in Positions(pb)})

-----------------------------------------------------------------------------
\* The external scripts that a playbook still names, each with its place.
References(pb) == UNION {{<<q, f>> : f \in At(pb, q).files} : q \in Positions(pb)}

RequiresElevation(pb) == \E q \in Positions(pb) : At(pb, q).elevated

FaultyInlined == Places \ GatherPlaces

\* The places whose scripts Preprocess inlines: all of them.
Inlined == Places

Preprocess(pb) ==
    [pb EXCEPT !.sections =
        [i \in 1..Len(pb.sections) |->
            [pb.sections[i] EXCEPT !.assertions =
                [j \in 1..Len(pb.sections[i].assertions) |->
                    [pb.sections[i].assertions[j] EXCEPT !.files = @ \ Inlined]]]]]

=============================================================================
