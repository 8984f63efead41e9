----------------------------- MODULE TrackerEngine -----------------------------
(***************************************************************************)
(* Tracker lists and their edits (src/tracker_engine.cpp, TrackerTier in   *)
(* src/domain.cpp).  A list is a sequence of tiers, a tier a sequence of   *)
(* URLs.  An edit is an operator from a list to the edited list, or to     *)
(* Refused when an index or an input is wrong.  Indexes count from 1 here. *)
(***************************************************************************)
EXTENDS Integers, FiniteSets, SequencesExt

CONSTANTS
    KeyOf,      \* the comparison key of every URL that parses
    Refused     \* the result of an edit that fails

Trackers == DOMAIN KeyOf
Valid(url) == url \in Trackers

\* The lists there are: no tier is empty or names a tracker twice.
Tiers == {tier \in Seq(Trackers) :
            tier # <<>> /\ \A i, j \in DOMAIN tier : KeyOf[tier[i]] = KeyOf[tier[j]] => i = j}
Lists == Seq(Tiers)

ASSUME TrackerAssumption == Refused \notin Lists /\ "" \notin Trackers /\ "#..." \notin Trackers

\* The k-th of a set of numbers, and the entries of s at the indexes in I, in their order.
Nth(I, k) == CHOOSE i \in I : Cardinality({j \in I : j <= i}) = k
Pick(s, I) == [k \in 1 .. Cardinality(I) |-> s[Nth(I, k)]]

\* The pairs in P, by their first numbers, then by their second.
Upto(P, p) == {q \in P : q[1] < p[1] \/ (q[1] = p[1] /\ q[2] <= p[2])}
InOrder(P) ==
    [k \in 1 .. Cardinality(P) |-> CHOOSE p \in P : Cardinality(Upto(P, p)) = k]
Places(list) == UNION {{t} \X DOMAIN list[t] : t \in DOMAIN list}

\* TrackerTier::create: of URLs with equal keys the first stays.
CreateTier(urls) ==
    Pick(urls, {i \in DOMAIN urls : \A j \in 1 .. i - 1 : KeyOf[urls[j]] # KeyOf[urls[i]]})

\* Empty tiers are left out.
MakeList(tiers) ==
    LET full == Pick(tiers, {t \in DOMAIN tiers : tiers[t] # <<>>})
    IN [t \in DOMAIN full |-> CreateTier(full[t])]

-----------------------------------------------------------------------------
(* Edits *)

AddToTier(list, t, url) ==
    IF t \in DOMAIN list THEN MakeList([list EXCEPT ![t] = Append(@, url)]) ELSE Refused

AddTier(list, tier) == MakeList(Append(list, tier))

RemoveTracker(list, t, i) ==
    IF t \in DOMAIN list /\ i \in DOMAIN list[t]
    THEN MakeList([list EXCEPT ![t] = RemoveAt(@, i)])
    ELSE Refused

\* The tracker leaves its tier, which vanishes if that was its last, and ends the tier at d.
MoveTracker(list, s, i, d) ==
    IF {s, d} \subseteq DOMAIN list /\ s # d /\ i \in DOMAIN list[s]
    THEN LET shorter == [list EXCEPT ![s] = RemoveAt(@, i)]
             vanishes == shorter[s] = <<>>
             rest == IF vanishes THEN RemoveAt(shorter, s) ELSE shorter
             to == IF vanishes /\ s < d THEN d - 1 ELSE d
         IN MakeList([rest EXCEPT ![to] = Append(@, list[s][i])])
    ELSE Refused

\* d counts in the tier without the tracker that moves.
MoveTrackerWithinTier(list, t, i, d) ==
    IF t \in DOMAIN list /\ i \in DOMAIN list[t] /\ d \in 1 .. Len(list[t])
    THEN MakeList([list EXCEPT ![t] = InsertAt(RemoveAt(@, i), d, @[i])])
    ELSE Refused

MoveTier(list, s, d) ==
    IF {s, d} \subseteq DOMAIN list THEN MakeList(InsertAt(RemoveAt(list, s), d, list[s]))
                                    ELSE Refused

-----------------------------------------------------------------------------
(* Texts and JSON documents *)

\* A text is a sequence of lines: URLs, "#..." for comments, "" between tiers.
Comment == "#..."

\* import_text: every blank line begins a tier; one bad line refuses the text.
ImportText(lines) ==
    LET Blanks(n) == {j \in 1 .. n : lines[j] = ""}
        TierAt(b) == Pick(lines, {i \in DOMAIN lines : /\ lines[i] \notin {"", Comment}
                                                       /\ Cardinality(Blanks(i)) = b})
    IN IF \A i \in DOMAIN lines : lines[i] \in {"", Comment} \/ Valid(lines[i])
       THEN MakeList([b \in 1 .. Cardinality(Blanks(Len(lines))) + 1 |-> TierAt(b - 1)])
       ELSE Refused

\* export_text: a blank line before every tier but the first; the text ends with a line break,
\* so its last line is blank.
ExportText(list) ==
    LET blanks == (2 .. Len(list)) \cup {Len(list) + 1}
        lines == InOrder(Places(list) \cup blanks \X {0})
    IN [k \in DOMAIN lines |-> IF lines[k][2] = 0 THEN "" ELSE list[lines[k][1]][lines[k][2]]]

\* import_json: empty tiers, unknown or doubled members and anything that is no URL refuse the
\* document.
ImportJson(document) ==
    IF /\ document.members \in {<<"format", "tiers">>, <<"tiers", "format">>}
       /\ document.format = "v1"
       /\ \A t \in DOMAIN document.tiers :
            document.tiers[t] # <<>> /\ \A i \in DOMAIN document.tiers[t] : Valid(document.tiers[t][i])
    THEN MakeList(document.tiers)
    ELSE Refused

ExportJson(list) == [members |-> <<"format", "tiers">>, format |-> "v1", tiers |-> list]
=============================================================================
