-------------------------- MODULE ContactDirectory --------------------------
(***************************************************************************)
(* Who is who on a Baileys session (baileys-contact-directory.ts): which   *)
(* opaque "@lid" belongs to which phone number, and the names of both.     *)
(* A directory is a value: the people whose two ids are known to be one,   *)
(* the ids that have an entry, and the names the entries carry.  An id is  *)
(* a person and a form; that device numbers are cut off and domains are    *)
(* translated (baileys-jid.util.ts) is what makes the forms two.           *)
(***************************************************************************)
EXTENDS Naturals, FiniteSets

CONSTANTS People

Forms == {"lid", "pn"}
Ids == People \X Forms
Fields == {"savedName", "pushName", "verifiedName"}

Directories == [known : SUBSET People, there : SUBSET Ids, names : SUBSET (Ids \X Fields)]
Empty == [known |-> {}, there |-> {}, names |-> {}]

\* resolve: the phone number of a lid once it is known.
Resolve(d, p, form) == IF p \in d.known THEN "pn" ELSE form

NamesUnder(d, p, form) == {f \in Fields : <<<<p, form>>, f>> \in d.names}

\* nameFor: whether a name is found for a sender, and which.
NameFor(d, p, form) ==
    LET names == NamesUnder(d, p, Resolve(d, p, form))
    IN IF "savedName" \in names THEN "savedName"
       ELSE IF "pushName" \in names THEN "pushName"
       ELSE IF "verifiedName" \in names THEN "verifiedName" ELSE "none"

\* Mutant: the names stay where they were.
MovedBare(d, p) ==
    IF p \in d.known /\ <<p, "pn">> \notin d.there /\ <<p, "lid">> \in d.there
    THEN [d EXCEPT !.there = (@ \ {<<p, "lid">>}) \cup {<<p, "pn">>}]
    ELSE d

\* The entry under the lid becomes the one under the number, if the number has none.
Moved(d, p) ==
    IF p \in d.known /\ <<p, "pn">> \notin d.there /\ <<p, "lid">> \in d.there
    THEN [d EXCEPT !.there = (@ \ {<<p, "lid">>}) \cup {<<p, "pn">>},
                   !.names = {n \in @ : n[1] # <<p, "lid">>}
                             \cup ({<<p, "pn">>} \X NamesUnder(d, p, "lid"))]
    ELSE d

\* merge: the entry is made if it is not there, and given the names.
Merge(d, p, key, fields) ==
    LET e == IF key = "pn" THEN Moved(d, p) ELSE d
    IN [e EXCEPT !.there = @ \cup {<<p, key>>}, !.names = @ \cup ({<<p, key>>} \X fields)]

\* learnContact: both ids at once are a mapping; the names go to the number when it is known.
LearnContact(d, p, forms, fields) ==
    LET e == IF forms = Forms THEN [d EXCEPT !.known = @ \cup {p}] ELSE d
    IN Merge(e, p, IF "pn" \in forms THEN "pn" ELSE Resolve(e, p, "lid"), fields)

\* learnPushName: the name on a message, under what its sender resolves to.
LearnPushName(d, p, form, named) ==
    Merge(d, p, Resolve(d, p, form), IF named THEN {"pushName"} ELSE {})

\* The senders of a chunk of history are learned one after another, without a name.  Each has
\* entries of his own, so that the order and how often one comes do not matter.
LearnSenders(d, people, form) ==
    LET one(p) == LearnPushName(d, p, form, FALSE)
    IN [d EXCEPT !.there = {k \in @ : k[1] \notin people}
                           \cup UNION {{k \in one(p).there : k[1] = p} : p \in people},
                 !.names = {n \in @ : n[1][1] \notin people}
                           \cup UNION {{n \in one(p).names : n[1][1] = p} : p \in people}]

\* Only a new mapping or a new name has a save scheduled.
Changed(d, e) == d.known # e.known \/ d.names # e.names
=============================================================================
