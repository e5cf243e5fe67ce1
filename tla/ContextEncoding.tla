-------------------------- MODULE ContextEncoding --------------------------
(***************************************************************************)
(* What a proof is bound to, as strings: ctx_domain folds the threshold    *)
(* into the domain, token_context_bytes puts the fields behind each other. *)
(* A string is a sequence of characters, a digit is the number it stands   *)
(* for, and a field of fixed width is one character of its own.            *)
(***************************************************************************)
EXTENDS Naturals, Sequences

CONSTANTS
    Hash,         \* THRESHOLD_SEP, '#'
    Bar,          \* CTX_SEP, '|'
    NoThreshold   \* the threshold of a single-set deployment, None in the code

ASSUME SeparatorAssumption == Hash # Bar /\ Hash \notin 0 .. 9 /\ Bar \notin 0 .. 9
ASSUME NoThresholdIsNoNumber == NoThreshold \notin Nat

Thresholds == 0 .. 65535

(* Slips a maintainer could make in the definitions below. *)

DomainAlone(domain, threshold) == domain

BytesWithoutNonce(field, epoch, root, key, nonce) ==
    field \o <<Bar, epoch, Bar, root, Bar, key>>

BarOnly(domain) == domain # <<>> /\ \A i \in DOMAIN domain : domain[i] # Bar

(* A raw host name: not empty and free of both separators. *)
CheckDomain(domain) == /\ domain # <<>>
                       /\ \A i \in DOMAIN domain : domain[i] \notin {Bar, Hash}

(* The threshold as text. *)
Width(n) == IF n < 10 THEN 1 ELSE IF n < 100 THEN 2 ELSE IF n < 1000 THEN 3
            ELSE IF n < 10000 THEN 4 ELSE 5

Weight == <<1, 10, 100, 1000, 10000>>

Decimal(n) == [i \in 1 .. Width(n) |-> (n \div Weight[Width(n) + 1 - i]) % 10]

(* 'domain' or 'domain#threshold'. *)
CtxDomain(domain, threshold) ==
    IF threshold = NoThreshold THEN domain ELSE domain \o <<Hash>> \o Decimal(threshold)

(* No '|', at most one '#', something before it and only digits after it. *)
CheckCtxField(field) ==
    /\ field # <<>>
    /\ \A i \in DOMAIN field :
           /\ field[i] # Bar
           /\ field[i] = Hash => /\ i \notin {1, Len(field)}
                                 /\ \A j \in i + 1 .. Len(field) : field[j] \in 0 .. 9

(* ctx_domain and token_context_bytes raise for every other domain. *)
Encodable(domain, threshold) ==
    /\ CheckDomain(domain)
    /\ threshold \in Thresholds \cup {NoThreshold}
    /\ CheckCtxField(CtxDomain(domain, threshold))

(* What context_digest hashes, and the string a proof is bound to; the constant text
   they begin with is left out. *)
ContextDigest(field, epoch) == field \o <<Bar, epoch>>

ContextBytes(field, epoch, root, key, nonce) ==
    field \o <<Bar, epoch, Bar, root, Bar, key, Bar, nonce>>

=============================================================================
