--------------------------- MODULE PasswordPolicy ---------------------------
(***************************************************************************)
(* validate_password of utils/password_policy.py, which registration and   *)
(* onboarding ask before they create an account.  The two scans            *)
(* (_has_long_run, _is_sequence) advance one character at a time with the  *)
(* counters the code keeps; the verdict is compared with a definition that *)
(* has no counters.                                                        *)
(*                                                                         *)
(* A character is its code point, a password a sequence of them.  The      *)
(* limits are constants so that small passwords meet them.                 *)
(***************************************************************************)
EXTENDS Integers, Sequences, FiniteSets, FiniteSetsExt

CONSTANTS
    Passwords,      \* passwords submitted
    CharClass,      \* code point -> "upper", "lower", "digit", "special" or "space"
    LowerOf,        \* code point -> code point, str.lower
    CommonPasswords,\* COMMON_PASSWORDS
    CommonInside,   \* those looked for inside: six characters or more, and
                    \* not "secret"
    Identities,     \* the email, its local part, tenant and user names, lowered
    MinLength, MaxLength, MinCategories,
    RunLength,      \* identical characters in a row that are too many
    SeqLength,      \* characters in sequence that are too many
    MinIdentity     \* shortest name looked for inside

\* One character is neither a run nor a sequence.
ASSUME PolicyAssumption ==
    /\ Passwords \subseteq Seq(Nat)
    /\ RunLength \in Nat \ {0, 1}
    /\ SeqLength \in Nat \ {0, 1}

VARIABLES
    password,   \* the password submitted
    scan,       \* the counters of the two loops
    verdict     \* "none", "valid" or "refused"

policyVars == <<password, scan, verdict>>

ScanStart == [at |-> 1, streak |-> 1, up |-> 1, down |-> 1, run |-> FALSE, sequence |-> FALSE]

PolicyInit ==
    /\ password \in Passwords
    /\ scan = ScanStart
    /\ verdict = "none"

\* _categories
Categories(p) ==
    Cardinality({CharClass[p[n]] : n \in DOMAIN p} \ {"space"})

Lowered(p) == [n \in DOMAIN p |-> LowerOf[p[n]]]

\* str.strip
Stripped(p) ==
    LET seen == {n \in DOMAIN p : CharClass[p[n]] # "space"} IN
    IF seen = {} THEN <<>> ELSE SubSeq(p, Min(seen), Max(seen))

\* token in p
Within(p, token) ==
    \E n \in 1..Len(p) :
        n + Len(token) - 1 <= Len(p) /\ SubSeq(p, n, n + Len(token) - 1) = token

\* The reasons that need no scan.
PlainlyRefused(p) ==
    LET lowered == Lowered(p)
        core == Stripped(lowered)
    IN
    \/ Len(p) < MinLength
    \/ Len(p) > MaxLength
    \/ Categories(p) < MinCategories
    \/ core \in CommonPasswords
    \/ \E c \in CommonInside : Within(core, c)
    \/ \E i \in Identities : Len(i) >= MinIdentity /\ Within(lowered, i)

\* MUTANT of Counted: a break in the sequence starts the count at zero.
CountedFromZero(count, continues) == IF continues THEN count + 1 ELSE 0

\* The counter of a loop at the next character.
Counted(count, continues) == IF continues THEN count + 1 ELSE 1

\* One character further in both loops.
ScanNext ==
    LET here == password[scan.at + 1]
        before == password[scan.at]
        streak == Counted(scan.streak, here = before)
        up == Counted(scan.up, here = before + 1)
        down == Counted(scan.down, here + 1 = before)
    IN
    /\ verdict = "none"
    /\ scan.at < Len(password)
    /\ scan' = [at |-> scan.at + 1, streak |-> streak, up |-> up, down |-> down,
                run |-> scan.run \/ streak >= RunLength,
                sequence |-> scan.sequence \/ up >= SeqLength \/ down >= SeqLength]
    /\ UNCHANGED <<password, verdict>>

\* The reasons are collected; none of them means valid.
Validate ==
    /\ verdict = "none"
    /\ scan.at >= Len(password)
    /\ verdict' = IF scan.run \/ scan.sequence \/ PlainlyRefused(password)
                  THEN "refused" ELSE "valid"
    /\ UNCHANGED <<password, scan>>

PolicyNext == ScanNext \/ Validate

PolicySpec == PolicyInit /\ [][PolicyNext]_policyVars

----------------------------------------------------------------------------
(* Properties.                                                             *)

\* L characters in a row, from some place on, each d above the one before.
InARow(p, L, d) ==
    \E n \in 1..Len(p) :
        n + L - 1 <= Len(p) /\ \A k \in n..(n + L - 2) : p[k + 1] = p[k] + d

\* The scans miss nothing and find nothing that is not there: a password of
\* acceptable length, with enough kinds of characters and nothing known in
\* it, is accepted exactly when no RunLength identical and no SeqLength
\* ascending or descending characters stand in a row (password_policy.py,
\* the policy in its header).
PolicyExact ==
    verdict # "none" =>
        (verdict = "valid"
            <=> /\ ~ PlainlyRefused(password)
                /\ ~ InARow(password, RunLength, 0)
                /\ ~ InARow(password, SeqLength, 1)
                /\ ~ InARow(password, SeqLength, -1))
=============================================================================
