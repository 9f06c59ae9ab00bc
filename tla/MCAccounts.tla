----------------------------- MODULE MCAccounts -----------------------------
(***************************************************************************)
(* The account modules for TLC, one part of each behaviour: the lockout of *)
(* the login form, signing up, the password policy, and the records kept   *)
(* about suppliers.  They share no state, so the parts not being explored  *)
(* stay as they are at first.                                              *)
(*                                                                         *)
(* Lockout: a limit of two with two clients is passed by the fourth guess. *)
(* Onboarding: two visitors race every pair of requests.  Passwords: every *)
(* one of up to five of five characters, which follow each other; 4 is the *)
(* capital of 1, and 5 a blank.  Records: three requests, so that two race *)
(* for a row, a supplier or a form that a third made or deleted.           *)
(***************************************************************************)
EXTENDS AccountLockout, Onboarding, PasswordPolicy, SupplierRecords, TLC

VARIABLE part

accountVars == <<lockVars, onboardVars, policyVars, recordVars, part>>

\* Logins in flight, server processes and visitors are interchangeable.
Interchangeable == Permutations(Clients) \cup Permutations(Processes) \cup Permutations(Visitors)

MCCharClass == <<"lower", "lower", "digit", "upper", "space">>
MCLowerOf == <<1, 2, 3, 1, 5>>
MCCommonPasswords == {<<3, 1>>, <<1, 2, 2>>}
MCCommonInside == {<<1, 2, 2>>}
MCIdentities == {<<1, 3>>, <<2>>}
MCPasswords == UNION {[1..n -> 1..5] : n \in 0..5}

MCFirstSuppliers == <<[tenant |-> "t1", name |-> "a"], [tenant |-> "t2", name |-> "b"]>>
MCFirstRecord ==
    LET dated == [tenant |-> "t1", supplier |-> 1, from |-> 2, to |-> 4]
        doc == dated @@ [content |-> <<"1">>, hash |-> Sha(<<"1">>)]
    IN  [license     |-> dated @@ [key |-> "k1"],
         certificate |-> dated @@ [coverage |-> 1, aggregate |-> 2],
         loss_run    |-> dated,
         schedule    |-> doc @@ [count |-> 1],
         form        |-> doc @@ [status |-> "draft", next |-> 0]]

\* Two creations, one for another tenant's supplier, the updates of the first
\* record and of the second, and deletions.
Asks(k, op, id, t, P) == [kind : {k}, op : {op}, id : {id}, tenant : {t}, p : P]
Blank == {[f \in {} |-> 0]}
InputsOf(k, new, changes) ==
    Asks(k, "create", 0, "t1", {[supplier |-> 1] @@ new})
        \cup Asks(k, "create", 0, "t1", {[supplier |-> 2] @@ new})
        \cup Asks(k, "update", 4, "t1", changes)
        \cup Asks(k, "delete", 4, "t1", Blank)
        \cup Asks(k, "delete", 4, "t2", Blank)
        \cup Asks("supplier", "delete", 1, "t1", Blank)
MCInputs ==
    [license |->
        InputsOf("license", [key |-> "k2", from |-> 1, to |-> 2],
                 {[key |-> "k2"], [key |-> "null"], [from |-> 4], [from |-> 3, to |-> 3], [to |-> 3]})
            \cup Asks("license", "update", 5, "t1", {[key |-> "k1"]}),
     certificate |->
        InputsOf("certificate", [from |-> 1, to |-> 2, coverage |-> 1, aggregate |-> 1],
                 {[coverage |-> 3], [coverage |-> 0], [from |-> 3], [to |-> 3], [to |-> 0]})
            \cup Asks("certificate", "create", 0, "t1",
                      {[supplier |-> 1, from |-> 1, to |-> 2, coverage |-> 2, aggregate |-> 1]}),
     loss_run |->
        InputsOf("loss_run", [from |-> 1, to |-> 2], {[from |-> 3], [to |-> 3], [from |-> 0]})
            \cup Asks("supplier", "create", 0, "t2", {[name |-> "c"]})
            \cup Asks("supplier", "update", 1, "t1", Blank \cup {[name |-> "d"], [name |-> "null"]})
            \cup Asks("supplier", "delete", 3, "t2", Blank),
     schedule |->
        InputsOf("schedule", [from |-> 1, content |-> <<>>],
                 {[content |-> c] : c \in {<<"true">>, <<"a">>, <<"a", "b">>, NullJson, <<"huge">>}}
                     \cup {[from |-> 4], [to |-> 0]}),
     form |->
        InputsOf("form", [content |-> <<"a">>],
                 {[content |-> <<"true">>], [content |-> <<>>], [content |-> NullJson],
                  [next |-> 5], [next |-> 0, status |-> "draft"]})
            \cup Asks("form", "create", 0, "t2", {[supplier |-> 2, content |-> <<"a">>]})
            \cup Asks("form", "update", 5, "t1", {[next |-> 4], [next |-> 5]})
            \cup Asks("form", "delete", 5, "t1", Blank)]

AccountsInit ==
    /\ part \in {"lockout", "onboarding", "password", "records"}
    /\ LockInit
    /\ OnboardInit
    /\ PolicyInit
    /\ RecordsInit
    /\ part # "password" => password = <<1>>
    /\ part # "records" => kind = "license"

AccountsNext ==
    /\ UNCHANGED part
    /\ \/ part = "lockout" /\ LockNext /\ UNCHANGED <<onboardVars, policyVars, recordVars>>
       \/ part = "onboarding" /\ OnboardNext /\ UNCHANGED <<lockVars, policyVars, recordVars>>
       \/ part = "password" /\ PolicyNext /\ UNCHANGED <<lockVars, onboardVars, recordVars>>
       \/ part = "records" /\ RecordsNext /\ UNCHANGED <<lockVars, onboardVars, policyVars>>

AccountsSpec == AccountsInit /\ [][AccountsNext]_accountVars
=============================================================================
