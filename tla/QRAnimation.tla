---------------------------- MODULE QRAnimation ----------------------------
(***************************************************************************)
(* Scanning an animation: DecodeQR.add_data for one code after the other,  *)
(* with the decoders of numbered parts (Specter, BBQr) and the fountain    *)
(* decoder of UR (helpers/ur2).  The camera may see the parts in any       *)
(* order, miss some, see some again, and see parts of another animation.   *)
(*                                                                         *)
(* A code of an animation carries                                          *)
(*   total, number, of   which part this is, and of what                   *)
(* and a UR code                                                           *)
(*   of        the UR, whose header (count, length, checksum) it repeats   *)
(*   whole     the UR is in one code                                       *)
(*   indexes   otherwise, the fragments that are mixed (xor) in it         *)
(* A fragment is a pair of UR and index, and mixed fragments are the set   *)
(* of them, of which xor is the symmetric difference.                      *)
(***************************************************************************)
EXTENDS QRCodes, Lists, SequencesExt

CONSTANTS
    Scanned,            \* the codes that may come before the camera
    Urs, FragmentCount(_),      \* the URs in them; the number of fragments of each
    MaxSeqLen,          \* MAX_SEQ_LEN
    Preference,         \* SETTING__AMBIGUOUS_QR
    NoType, NoUr        \* None

\* The URs have fragments, and the codes that look like parts carry what a
\* part carries.
ASSUME ScanAssumption ==
    /\ \A u \in Urs : FragmentCount(u) \in Nat \ {0}
    /\ NoUr \notin Urs /\ "bad_checksum" \notin Urs \cup {NoUr}
    /\ NoType \notin Types
    /\ \A c \in Scanned :
         /\ c.payload \subseteq Payloads
         /\ c.looks \cap Ur # {} /\ c.valid =>
                /\ c.of \in Urs
                /\ c.whole \/ c.indexes \in (SUBSET (0..(FragmentCount(c.of) - 1))) \ {{}}
         /\ c.looks \cap Animated # {} => c.total \in Nat

VARIABLES
    mode,           \* what is scanned for: anything, a passphrase, a key, a text
    qrType,         \* DecodeQR.qr_type, fixed by the first code
    outcome,        \* what add_data answered last, or "raises"
    segments,       \* the numbered parts so far; "missing" is None
    expected,       \* the UR whose header all parts must repeat
    simple, mixed,  \* fragments by index; parts that are still mixed, oldest first
    result          \* what the decoder made of the UR

scanVars == <<mode, qrType, outcome, segments, expected, simple, mixed, result>>

Over == outcome \in {"complete", "invalid", "raises", "left"}
Yields(o) == outcome' = o
KeepSegments == UNCHANGED segments
KeepUr == UNCHANGED <<expected, simple, mixed, result>>

ScanInit ==
    /\ mode \in {"any", "passphrase", "encryption_key", "text"}
    /\ qrType = NoType /\ outcome = "none" /\ segments = <<>>
    /\ expected = NoUr /\ simple = <<>> /\ mixed = <<>> /\ result = NoUr

----------------------------------------------------------------------------
(* Numbered parts: BaseAnimatedQrDecoder.add *)
\* The number is used as an index, from the end when it is 0.
Place(c) == IF c.number = 0 THEN c.total ELSE c.number

\* Specter's descriptors are checked when they are complete (parts of two
\* descriptors make no JSON); transactions are not.
IsValid(s) == qrType' = "wallet__specter" => Cardinality(Range(s)) = 1

AddNumbered(c) ==
    LET parts == IF segments = <<>> THEN [k \in 1..c.total |-> "missing"] ELSE segments
        filled == [parts EXCEPT ![Place(c)] = c.of]
        full == \A k \in DOMAIN parts : k # Place(c) => parts[k] # "missing"
    IN /\ KeepUr
       /\ IF Len(parts) # c.total \/ Place(c) \notin DOMAIN parts
          THEN Yields("raises") /\ KeepSegments
          ELSE IF parts[Place(c)] # "missing"
          THEN Yields("part_existing") /\ segments' = parts
          ELSE /\ segments' = filled
               /\ Yields(CASE ~full -> "part_complete"
                           [] full -> IF IsValid(filled) THEN "complete" ELSE "invalid")

----------------------------------------------------------------------------
(* FountainDecoder.  s: the state while the queue of parts of the UR s.of    *)
(* is worked off.                                                            *)
Part(indexes, data) == [indexes |-> indexes, data |-> data]
IsSimple(p) == Cardinality(p.indexes) = 1
IndexOf(p) == CHOOSE k \in p.indexes : TRUE
Xor(a, b) == (a \ b) \cup (b \ a)
Fragments(u, indexes) == {<<u, k>> : k \in indexes}
Indexes(u) == 0..(FragmentCount(u) - 1)

\* Mutant: a part is reduced by one that has other fragments, too.
ReduceByAny(a, b) ==
    IF b.indexes \cap a.indexes # {} /\ a.indexes \ b.indexes # {}
    THEN Part(a.indexes \ b.indexes, Xor(a.data, b.data)) ELSE a

ReduceByPart(a, b) ==
    IF b.indexes \subseteq a.indexes /\ b.indexes # a.indexes
    THEN Part(a.indexes \ b.indexes, Xor(a.data, b.data)) ELSE a

\* By one part after the other.
ReduceByParts(p, parts) ==
    LET reduced[n \in 0..Len(parts)] == IF n = 0 THEN p ELSE ReduceByPart(reduced[n - 1], parts[n])
    IN reduced[Len(parts)]

\* A dictionary by indexes: a second value takes the place of the first.
Dictionary(parts) ==
    LET Same(k) == {j \in DOMAIN parts : parts[j].indexes = parts[k].indexes}
        last == [k \in DOMAIN parts |-> parts[Max(Same(k))]]
    IN Those(last, {k \in DOMAIN parts : k = Min(Same(k))})

ReduceMixedBy(s, p) ==
    LET reduced == [k \in DOMAIN s.mixed |-> ReduceByPart(s.mixed[k], p)]
        simples == {k \in DOMAIN s.mixed : IsSimple(reduced[k])}
    IN [s EXCEPT !.queue = @ \o Those(reduced, simples),
                 !.mixed = Dictionary(Those(reduced, DOMAIN s.mixed \ simples))]

\* The fragments joined are a UR when all are of it; the checksum tells.
Joined(s) ==
    LET all == UNION {s.simple[k] : k \in DOMAIN s.simple}
    IN IF all = Fragments(s.of, Indexes(s.of)) THEN s.of ELSE "bad_checksum"

ProcessSimple(s, p) ==
    LET simples == [k \in DOMAIN s.simple \cup {IndexOf(p)} |->
                        IF k \in DOMAIN s.simple THEN s.simple[k] ELSE p.data]
        added == [s EXCEPT !.simple = simples]
    IN IF IndexOf(p) \in DOMAIN s.simple THEN s
       ELSE IF DOMAIN simples = Indexes(s.of) THEN [added EXCEPT !.result = Joined(added)]
       ELSE ReduceMixedBy(added, p)

\* (The test for duplicates compares a part with its indexes and never holds.)
ProcessMixed(s, p) ==
    LET known == SetToSeq(DOMAIN s.simple)
        simples == [n \in DOMAIN known |-> Part({known[n]}, s.simple[known[n]])]
        q == ReduceByParts(p, simples \o s.mixed)
    IN IF IsSimple(q) THEN [s EXCEPT !.queue = Append(@, q)]
       ELSE LET r == ReduceMixedBy(s, q) IN [r EXCEPT !.mixed = Dictionary(Append(@, q))]

ProcessQueueItem(s) ==
    LET p == Head(s.queue)
        t == [s EXCEPT !.queue = Tail(@)]
    IN IF IsSimple(p) THEN ProcessSimple(t, p) ELSE ProcessMixed(t, p)

\* Until there is a result or no queue.  Of each turn a mixed part comes out
\* simple or among those that stay mixed, or a simple part less: so many turns
\* are enough.
IsComplete(s) == s.queue = <<>> \/ s.result # NoUr
Turns(s) == 2 * Len(s.queue) + Len(s.mixed)
ProcessQueue(s) ==
    LET after[n \in 0..Turns(s)] ==
            IF n = 0 THEN s
            ELSE IF IsComplete(after[n - 1]) THEN after[n - 1] ELSE ProcessQueueItem(after[n - 1])
    IN after[Turns(s)]

\* Mutant: any part of a UR with as many fragments will do.
SameCountWillDo(c) == expected = NoUr \/ FragmentCount(c.of) = FragmentCount(expected)

\* validate_part: the header of the first part is the header of all, unless
\* it says that there are too many.
ValidatePart(c) == FragmentCount(c.of) <= MaxSeqLen /\ (expected = NoUr \/ c.of = expected)

\* URDecoder.receive_part, and add_data's answer.
AddUr(c) ==
    /\ KeepSegments
    /\ IF c.whole
       THEN result' = c.of /\ Yields("complete") /\ UNCHANGED <<expected, simple, mixed>>
       ELSE IF ~ValidatePart(c) THEN Yields("part_complete") /\ KeepUr
       ELSE /\ expected' = IF expected = NoUr THEN c.of ELSE expected
            /\ LET p == Part(c.indexes, Fragments(c.of, c.indexes))
                   s == ProcessQueue([of |-> expected', queue |-> <<p>>, simple |-> simple,
                                      mixed |-> mixed, result |-> NoUr])
               IN /\ simple' = s.simple /\ mixed' = s.mixed /\ result' = s.result
                  /\ Yields(IF s.result = NoUr THEN "part_complete" ELSE "complete")

\* A code that is damaged changes nothing once its type is known.
AddDamagedUr == Yields("part_existing") /\ KeepSegments /\ KeepUr

----------------------------------------------------------------------------
AddData(c) ==
    LET t == TypeFor(mode, c, Preference)
    IN /\ ~Over
       /\ qrType' = IF qrType = NoType THEN t ELSE qrType
       /\ UNCHANGED mode
       /\ IF t # qrType' THEN Yields("raises") /\ KeepSegments /\ KeepUr
          ELSE IF t \in Ur THEN IF c.valid THEN AddUr(c) ELSE AddDamagedUr
          ELSE IF t \in Animated THEN AddNumbered(c)
          ELSE Yields(Outcome(mode, c, Preference)) /\ KeepSegments /\ KeepUr

\* ScanScreen: a key left or right ends the scan.
Leave == ~Over /\ Yields("left") /\ UNCHANGED <<mode, qrType>> /\ KeepSegments /\ KeepUr

ScanNext == (\E c \in Scanned : AddData(c)) \/ Leave

ScanSpec == ScanInit /\ [][ScanNext]_scanVars

----------------------------------------------------------------------------
(* get_percent_complete, as the preview shows it: a fragment that is mixed   *)
(* with others counts for its share of each mixture, three quarters at most. *)
(* Unit is divisible by the sizes of mixtures.                               *)
Unit == 12
Score(k) ==
    LET shares == SumOf([n \in DOMAIN mixed |->
                      IF k \in mixed[n].indexes THEN Unit \div Cardinality(mixed[n].indexes) ELSE 0])
    IN IF 4 * shares > 3 * Unit THEN (3 * Unit) \div 4 ELSE shares

PercentOfUr ==
    IF result # NoUr THEN 100
    ELSE IF expected = NoUr THEN 0
    ELSE LET known == Unit * Cardinality(DOMAIN simple)
             score == known + SumOf([n \in 1..FragmentCount(expected) |-> Score(n - 1)])
         IN (100 * score) \div (Unit * FragmentCount(expected))

Percent ==
    LET collected == {k \in DOMAIN segments : segments[k] # "missing"}
    IN CASE qrType \in Ur -> PercentOfUr
         [] qrType \in {"psbt__specter", "psbt__bbqr"} ->
                IF segments = <<>> THEN 0 ELSE (100 * Cardinality(collected)) \div Len(segments)
         [] OTHER -> IF outcome = "complete" /\ Len(segments) < 2 THEN 100 ELSE 0

----------------------------------------------------------------------------
ScanTypeOK ==
    /\ mode \in {"any", "passphrase", "encryption_key", "text"}
    /\ qrType \in Types \cup {NoType}
    /\ outcome \in {"none", "part_complete", "part_existing", "complete", "invalid", "raises", "left"}
    /\ expected \in Urs \cup {NoUr} /\ result \in Urs \cup {NoUr, "bad_checksum"}
    /\ \A k \in DOMAIN mixed : mixed[k].indexes \subseteq Indexes(expected)

(* The parts of a UR are solved soundly and as far as they go: each holds   *)
(* the fragments of the expected UR it is listed with, no fragment that is  *)
(* known is mixed in another part, and with all of them known the UR is     *)
(* there, never a wrong checksum; the preview does not tell 100 % before.   *)
(* Parts of another animation that the camera sees in between, and parts in *)
(* any order, do no harm (fountain_decoder.py:188, 256).                    *)
UrIsSolved ==
    /\ \A k \in DOMAIN simple : simple[k] = {<<expected, k>>}
    /\ \A k \in DOMAIN mixed : /\ mixed[k].data = Fragments(expected, mixed[k].indexes)
                               /\ mixed[k].indexes \cap DOMAIN simple = {}
    /\ result # "bad_checksum"
    /\ (expected # NoUr /\ DOMAIN simple = Indexes(expected)) => result = expected
    /\ Percent = 100 => outcome = "complete"
=============================================================================
