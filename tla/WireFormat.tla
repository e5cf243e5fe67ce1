----------------------------- MODULE WireFormat -----------------------------
(***************************************************************************)
(* The bytes of a proof: proof_to_bytes, and the two decoders that read    *)
(* them, core.proof_from_bytes and zkboo::proof_from_bytes.  A decoder     *)
(* looks at lengths, at the declared number of repetitions and at one flag *)
(* per opening; every other byte is payload.  The lengths of the fields    *)
(* are parameters.  The body of a blob starts at offset 0; whatever is     *)
(* wrong with magic, version or depth makes its header bad.                *)
(***************************************************************************)
EXTENDS Integers, Sequences, FiniteSets

CONSTANTS
    CommitLen,  \* 32, three of them per repetition
    OutsLen,    \* 8 * nout, three of them per repetition
    SeedLen,    \* 32, two of them per opening
    InputsLen,  \* 8 * nw, in an opening that says so
    MultsLen,   \* 8 * nm
    MaxDeclared \* MAX_REPS

ASSUME LengthsAssumption ==
    /\ CommitLen \in Nat /\ OutsLen \in Nat /\ SeedLen \in Nat
    /\ InputsLen \in Nat /\ MultsLen \in Nat
ASSUME DeclaredAssumption == MaxDeclared \in Nat

VARIABLES
    blob,  \* header, declared repetitions, length and bytes of what is decoded
    at     \* per decoder: where it is, and what it has read

Decoders == {"python", "rust"}
Over == {"accepted", "rejected", "raised", "panicked"}

(* A byte that is neither flag. *)
Payload == 2

-----------------------------------------------------------------------------
(* Slips a maintainer could make in the definitions below. *)

OneByteShort(off) == off + 2 * SeedLen > blob.len

TrailingBytes(off) == off <= blob.len

-----------------------------------------------------------------------------
(* proof_to_bytes of a proof whose openings have these inputs2 blocks: two flat lists. *)
RepLen == 3 * CommitLen + 3 * OutsLen

OpeningLen(has2) == 2 * SeedLen + 1 + (IF has2 THEN InputsLen ELSE 0) + MultsLen

OpeningAt(has, k) ==
    Len(has) * RepLen + (k - 1) * OpeningLen(FALSE)
        + Cardinality({i \in 1 .. k - 1 : has[i]}) * InputsLen

FlagAt(has, k) == OpeningAt(has, k) + 2 * SeedLen

Flag(has2) == IF has2 THEN 1 ELSE 0

Encode(has) ==
    LET n == Len(has)
        len == OpeningAt(has, n) + OpeningLen(has[n]) IN
    [header |-> "good", reps |-> n, len |-> len,
     byte |-> [o \in 0 .. len - 1 |->
                  IF \E k \in 1 .. n : o = FlagAt(has, k)
                  THEN Flag(has[CHOOSE k \in 1 .. n : o = FlagAt(has, k)]) ELSE Payload]]

-----------------------------------------------------------------------------
Start == [stage |-> "header", k |-> 0, off |-> 0, has |-> <<>>, whole |-> TRUE]

(* What both decoders do before they allocate anything: the declared size must lie
   between all openings without and all with the optional block. *)
SizeFits(reps) ==
    LET lo == reps * (RepLen + OpeningLen(FALSE)) IN
    lo <= blob.len /\ blob.len <= lo + reps * InputsLen

GoodFlag(byte) == byte \in {0, 1}

Stop(d, outcome) == at' = [at EXCEPT ![d].stage = outcome]

Header(d) ==
    /\ at[d].stage = "header"
    /\ IF blob.header = "good" /\ blob.reps \in 1 .. MaxDeclared /\ SizeFits(blob.reps)
       THEN Stop(d, "reps") ELSE Stop(d, "rejected")
    /\ UNCHANGED blob

(* The bytes a Python slice holds: short, without a word, past the end. *)
Slice(off, n) == IF off >= blob.len THEN 0 ELSE IF off + n > blob.len THEN blob.len - off ELSE n

(* A read of n bytes as integers: _u64s_from_le raises ValueError on a short slice, and
   read_u64s returns None. *)
PyReads(off, n) == Slice(off, n) >= n
RsReads(off, n) == off + n <= blob.len

Reads(d, off, n) == IF d = "python" THEN PyReads(off, n) ELSE RsReads(off, n)

(* One repetition: three commitments, which Python slices unchecked, three outs. *)
ReadRep(d) ==
    LET off == at[d].off
        last == at[d].k + 1 = blob.reps IN
    /\ at[d].stage = "reps"
    /\ IF \/ d = "rust" /\ off + 3 * CommitLen > blob.len
          \/ \E i \in 0 .. 2 : ~Reads(d, off + 3 * CommitLen + i * OutsLen, OutsLen)
       THEN Stop(d, "rejected")
       ELSE at' = [at EXCEPT ![d].stage = IF last THEN "openings" ELSE @,
                             ![d].k = IF last THEN 0 ELSE @ + 1,
                             ![d].off = @ + RepLen,
                             ![d].whole = @ /\ Slice(off, 3 * CommitLen) = 3 * CommitLen]
    /\ UNCHANGED blob

(* Before the flag is read: off >= len(data) behind the seeds, off + 65 > data.len(). *)
PyTruncated(off) == off + 2 * SeedLen >= blob.len
RsTruncated(off) == off + 2 * SeedLen + 1 > blob.len

Truncated(d, off) == IF d = "python" THEN PyTruncated(off) ELSE RsTruncated(off)

(* One opening: two seeds, the flag, the block it announces, the products. *)
ReadOpening(d) ==
    LET off == at[d].off
        flagOff == off + 2 * SeedLen IN
    /\ at[d].stage = "openings" /\ at[d].k < blob.reps
    /\ \/ Truncated(d, off) /\ Stop(d, "rejected")
       \/ /\ ~Truncated(d, off) /\ flagOff >= blob.len
          /\ Stop(d, IF d = "python" THEN "raised" ELSE "panicked")
       \/ /\ ~Truncated(d, off) /\ flagOff < blob.len
          /\ LET flag == blob.byte[flagOff]
                 inputs == IF flag = 1 THEN InputsLen ELSE 0 IN
             IF \/ ~GoodFlag(flag)
                \/ ~Reads(d, flagOff + 1, inputs) \/ ~Reads(d, flagOff + 1 + inputs, MultsLen)
             THEN Stop(d, "rejected")
             ELSE at' = [at EXCEPT ![d].k = @ + 1,
                                   ![d].off = @ + OpeningLen(flag = 1),
                                   ![d].has = Append(@, flag = 1),
                                   ![d].whole = @ /\ Slice(off, 2 * SeedLen) = 2 * SeedLen]
    /\ UNCHANGED blob

Consumed(off) == off = blob.len

Finish(d) ==
    /\ at[d].stage = "openings" /\ at[d].k = blob.reps
    /\ Stop(d, IF Consumed(at[d].off) THEN "accepted" ELSE "rejected")
    /\ UNCHANGED blob

Decode(d) == Header(d) \/ ReadRep(d) \/ ReadOpening(d) \/ Finish(d)

-----------------------------------------------------------------------------
(* The two implementations accept the same blobs and read the same openings, although
   they test different bounds at different moments; neither reads past the end, which
   in Rust would panic and in Python raise something else than ValueError. *)
DecodersAgree ==
    /\ \A d \in Decoders : at[d].stage \notin {"raised", "panicked"}
    /\ (\A d \in Decoders : at[d].stage \in Over) =>
           /\ at["python"].stage = at["rust"].stage
           /\ at["python"].stage = "accepted" => at["python"].has = at["rust"].has

(* What is accepted is the encoding of what was read: the fields are whole, they fill the
   blob without a gap or an overlap, and their flags are where the encoder puts them. *)
DecodingIsExact ==
    \A d \in Decoders : at[d].stage = "accepted" =>
        LET has == at[d].has IN
        /\ at[d].whole
        /\ Len(has) = blob.reps
        /\ blob.len = Encode(has).len
        /\ \A k \in 1 .. Len(has) : blob.byte[FlagAt(has, k)] = Flag(has[k])

=============================================================================
