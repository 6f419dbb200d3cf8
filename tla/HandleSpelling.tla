-------------------------- MODULE HandleSpelling --------------------------
(* The spellings of a handle.  Clients and relay look for a handle under    *)
(* several spellings, made with ToUpper, ToLower and TrimPrefix "PV-".  A   *)
(* spelling is a name in one letter case behind a row of prefixes, each     *)
(* "PV-" or "pv-"; a prefix of mixed case is left out.                      *)
EXTENDS Sequences, Naturals

CONSTANTS
    Name,       \* names without prefix, whatever their letter case
    NoName      \* the empty string after the prefixes

Spelling == [pre : Seq({"PV", "pv"}), name : Name \cup {NoName},
             case : {"upper", "lower", "mixed", "none"}]

\* The empty handle.
NoSpelling == [pre |-> <<>>, name |-> NoName, case |-> "none"]

InCase(h, prefix, case) ==
    [pre |-> [i \in DOMAIN h.pre |-> prefix], name |-> h.name,
     case |-> IF h.name = NoName THEN "none" ELSE case]

ToUpper(h) == InCase(h, "PV", "upper")

ToLower(h) == InCase(h, "pv", "lower")

EqualFold(g, h) == ToLower(g) = ToLower(h)

\* strings.TrimPrefix(h, "PV-"), which knows the prefix in capitals only.
TrimPV(h) ==
    IF h.pre # <<>> /\ h.pre[1] = "PV" THEN [h EXCEPT !.pre = Tail(@)] ELSE h

AddPV(h) == [h EXCEPT !.pre = <<"PV">> \o @]

\* The spellings a message is posted to, queued under and published on, and
\* those a stream subscribes to.
Variants(h) ==
    <<h, ToUpper(h), ToLower(h), AddPV(ToUpper(TrimPV(h))), TrimPV(ToUpper(h))>>

\* Mutated form: the name in capitals is asked for first.
CandidatesUpperFirst(h) ==
    <<ToUpper(h), h, ToLower(h), AddPV(ToUpper(TrimPV(h))), TrimPV(h),
      TrimPV(ToUpper(h))>>

\* The spellings a handle is looked up under, in their order.
Candidates(h) ==
    <<h, ToUpper(h), ToLower(h), AddPV(ToUpper(TrimPV(h))), TrimPV(h),
      TrimPV(ToUpper(h))>>

\* The index of the next spelling of v after i that is not a repetition, or
\* one past the end.
NextFresh(v, i) ==
    LET fresh == {k \in (i + 1)..Len(v) : \A j \in 1..(k - 1) : v[j] # v[k]}
    IN  CHOOSE k \in fresh \cup {Len(v) + 1} : \A l \in fresh : k <= l
=============================================================================
