------------------------- MODULE LeaseDisableProofs -------------------------
(* Disabling a tenant reaches every tunnel in its mapping, for any number   *)
(* of tenants, attempts, threads and crashes.                               *)
EXTENDS LeaseControlProofs

\* A thread at step with locals l will still try to delete the tunnel a, whose
\* tenant O names.
Works(step, l, O, a) ==
    /\ l.ten = O[a]
    /\ \/ step = "mapping"
       \/ step \in {"sweep", "strike"} /\ a \in l.todo
       \/ step = "undo" /\ l.att = a

\* The attempt of a create belongs to the tenant it acts for.
TenantOwn ==
    \A th \in Threads :
        (loc[th].job = "create" /\ loc[th].att # None) => loc[th].ten = owner[loc[th].att]

\* A linked tunnel of a disabled tenant that runs will be tried, or was.
Swept ==
    \A a \in links :
        (row[a] = "up" /\ state[owner[a]] = "disabled")
            => a \in undone \/ \E th \in Threads : Works(pc[th], loc[th], owner, a)

DisableInv == TenantOwn /\ Swept

LEMMA InitDisable == Init => DisableInv
BY DEF Init, DisableInv, TenantOwn, Swept, NoLocal

LEMMA SweptImplies == LeaseInv /\ DisableInv => DisableReachesAll
BY DEF LeaseInv, TypeOK, DisableInv, Swept, Works, DisableReachesAll, Linked

-----------------------------------------------------------------------------
(* A thread moves on.                                                       *)

OwnersStay == \A a \in Attempts : owner[a] # None => owner'[a] = owner[a]

\* What the thread that moves must see to: each tunnel that is to be taken down
\* was so before and was not its own business, or it takes it on, or gave it up.
Accounts(th, step, l) ==
    \A a \in links' :
        (row'[a] = "up" /\ state'[owner'[a]] = "disabled")
            => \/ a \in undone'
               \/ Works(step, l, owner', a)
               \/ /\ a \in links /\ row[a] = "up" /\ state[owner[a]] = "disabled"
                  /\ ~Works(pc[th], loc[th], owner, a)

LEMMA LinkedOwned ==
    ASSUME LeaseInv, OwnersStay PROVE \A a \in links : owner'[a] = owner[a]
BY DEF LeaseInv, TypeOK, FreshUnused, OwnersStay

LEMMA Go ==
    ASSUME LeaseInv, DisableInv, NEW th \in Threads, NEW step, NEW l,
           Goto(th, step, l), undone \subseteq undone', OwnersStay,
           (l.job = "create" /\ l.att # None) => l.ten = owner'[l.att],
           Accounts(th, step, l)
    PROVE  DisableInv'
<1>1. /\ pc'[th] = step /\ loc'[th] = l
      /\ \A ot \in Threads \ {th} : pc'[ot] = pc[ot] /\ loc'[ot] = loc[ot]
  BY DEF LeaseInv, TypeOK, Goto
<1>2. TenantOwn'
  <2>1. ASSUME NEW ot \in Threads, loc'[ot].job = "create", loc'[ot].att # None
        PROVE  loc'[ot].ten = owner'[loc'[ot].att]
    <3>1. CASE ot = th BY <1>1, <2>1, <3>1
    <3>2. CASE ot # th
      <4>1. loc[ot].att \in Attempts /\ owner[loc[ot].att] # None
        BY <1>1, <2>1, <3>2, Here DEF LeaseInv, OwnAttempt
      <4> QED BY <1>1, <2>1, <3>2, <4>1 DEF DisableInv, TenantOwn, OwnersStay
    <3> QED BY <3>1, <3>2
  <2> QED BY <2>1 DEF TenantOwn
<1>3. Swept'
  <2>1. ASSUME NEW a \in links', row'[a] = "up", state'[owner'[a]] = "disabled",
               a \notin undone'
        PROVE  \E ot \in Threads : Works(pc'[ot], loc'[ot], owner', a)
    <3>1. CASE Works(step, l, owner', a) BY <1>1, <3>1
    <3>2. CASE /\ a \in links /\ row[a] = "up" /\ state[owner[a]] = "disabled"
               /\ ~Works(pc[th], loc[th], owner, a)
      <4>1. PICK ot \in Threads : Works(pc[ot], loc[ot], owner, a)
        BY <2>1, <3>2 DEF DisableInv, Swept
      <4>2. ot # th /\ owner'[a] = owner[a] BY <3>2, <4>1, LinkedOwned
      <4>3. pc'[ot] = pc[ot] /\ loc'[ot] = loc[ot] BY <1>1, <4>2
      <4> QED BY <4>1, <4>2, <4>3 DEF Works
    <3> QED BY <2>1, <3>1, <3>2 DEF Accounts
  <2> QED BY <2>1 DEF Swept
<1> QED BY <1>2, <1>3 DEF DisableInv

\* What is taken down after the step was to be taken down before it.
NothingNew ==
    /\ UNCHANGED state
    /\ links' \subseteq links
    /\ \A a \in links : row'[a] = "up" => row[a] = "up"
    /\ undone \subseteq undone'
    /\ OwnersStay

\* Steps of requests that have no part in taking tunnels down.
LEMMA GoQuietly ==
    ASSUME LeaseInv, DisableInv, NEW th \in Threads, NEW step, NEW l,
           Goto(th, step, l), NothingNew, pc[th] \notin {"mapping", "sweep", "strike", "undo"},
           (l.job = "create" /\ l.att # None) => l.ten = owner'[l.att]
    PROVE  DisableInv'
<1>1. Accounts(th, step, l) BY LinkedOwned DEF Accounts, NothingNew, Works
<1> QED BY <1>1, Go DEF NothingNew

LEMMA ReturnQuietly ==
    ASSUME LeaseInv, DisableInv, NEW th \in Threads, Return(th), NothingNew,
           pc[th] \notin {"mapping", "sweep", "strike", "undo"}
    PROVE  DisableInv'
<1>1. ~(NoLocal.job = "create") BY DEF NoLocal
<1> QED BY <1>1, GoQuietly DEF Return

\* A create that keeps its attempt keeps its tenant.
LEMMA StayOwn ==
    ASSUME LeaseInv, DisableInv, OwnersStay, NEW th \in Threads, NEW l, Likewise(th, l)
    PROVE  (l.job = "create" /\ l.att # None) => l.ten = owner'[l.att]
<1> SUFFICES ASSUME l.job = "create", l.att # None PROVE l.ten = owner'[l.att]
  OBVIOUS
<1>1. /\ l.job = loc[th].job /\ l.att = loc[th].att /\ l.ten = loc[th].ten
  BY DEF Likewise
<1>2. loc[th].att \in Attempts /\ owner[loc[th].att] # None
  BY <1>1, Here DEF LeaseInv, OwnAttempt
<1> QED BY <1>1, <1>2 DEF DisableInv, TenantOwn, OwnersStay

LEMMA UnchangedIsNothingNew ==
    ASSUME LeaseInv, UNCHANGED <<state, owner, row>>, links' \subseteq links,
           undone \subseteq undone'
    PROVE  NothingNew
BY DEF NothingNew, OwnersStay

-----------------------------------------------------------------------------
(* Requests that take nothing down, step by step.                           *)

LEMMA QuietAfterListing ==
    ASSUME LeaseInv, DisableInv, NEW th \in Threads, NEW att, NEW todo,
           AfterListing(th, att, todo), UNCHANGED <<state, owner, row>>,
           links' \subseteq links, undone \subseteq undone', loc[th].job = "create" => att = None,
           pc[th] \in {"scope", "list", "prune"}
    PROVE  DisableInv'
<1> DEFINE l == [loc[th] EXCEPT !.att = att, !.todo = todo]
           step == IF todo = {} THEN Onward(loc[th].job, att) ELSE "prune"
<1>1. NothingNew BY UnchangedIsNothingNew
<1>2. CASE Return(th) BY <1>1, <1>2, ReturnQuietly
<1>3. CASE Goto(th, step, l)
  <2>1. l.job = loc[th].job /\ l.att = att BY Here DEF Local
  <2> HIDE DEF l, step
  <2> QED BY <1>1, <1>3, <2>1, GoQuietly
<1> QED BY <1>2, <1>3 DEF AfterListing

LEMMA QuietReads ==
    ASSUME LeaseInv, DisableInv, NEW th \in Threads,
           (\E t \in Tenants, job \in Jobs : Enter(th, t, job))
             \/ ReadScope(th) \/ ListEngine(th) \/ Prune(th)
    PROVE  DisableInv'
<1>1. ASSUME NEW t \in Tenants, NEW job \in Jobs, Enter(th, t, job) PROVE DisableInv'
  <2> DEFINE l == [NoLocal EXCEPT !.job = job, !.ten = t]
  <2>1. l.att = None BY DEF NoLocal
  <2>2. NothingNew /\ pc[th] = "idle"
    BY <1>1, UnchangedIsNothingNew DEF Enter, dbVars, engVars, sysVars
  <2> HIDE DEF l
  <2> QED BY <1>1, <2>1, <2>2, GoQuietly DEF Enter, l
<1>2. CASE ReadScope(th)
  <2> DEFINE l == [loc[th] EXCEPT !.todo = Linked(loc[th].ten)]
  <2>1. NothingNew /\ pc[th] = "scope" /\ UNCHANGED <<state, owner, row, links, undone>>
    BY <1>2, UnchangedIsNothingNew DEF ReadScope, dbVars, engVars, sysVars
  <2>2. l.att = None BY <2>1, Here DEF Fits, Local
  <2>3. CASE Goto(th, "list", l)
    <3> HIDE DEF l
    <3> QED BY <2>1, <2>2, <2>3, GoQuietly
  <2> QED BY <1>2, <2>1, <2>3, QuietAfterListing DEF ReadScope
<1>3. CASE ListEngine(th)
  <2>1. NothingNew /\ pc[th] = "list" /\ UNCHANGED <<state, owner, row, links, undone>>
    BY <1>3, UnchangedIsNothingNew DEF ListEngine, dbVars, engVars, sysVars
  <2>2. CASE Return(th) BY <2>1, <2>2, ReturnQuietly
  <2>3. ASSUME loc[th].job = "delete", NEW a, AfterListing(th, a, loc[th].todo \ Listed)
        PROVE  DisableInv'
    BY <2>1, <2>3, QuietAfterListing
  <2>4. CASE AfterListing(th, None, loc[th].todo \ Listed)
    BY <2>1, <2>4, QuietAfterListing
  <2> QED BY <1>3, <2>2, <2>3, <2>4 DEF ListEngine
<1>4. CASE Prune(th)
  <2>1. PICK a \in loc[th].todo :
          links' = links \ {a} /\ AfterListing(th, loc[th].att, loc[th].todo \ {a})
    BY <1>4 DEF Prune
  <2>2. pc[th] = "prune" /\ UNCHANGED <<state, owner, row, undone>>
    BY <1>4 DEF Prune, engVars, sysVars
  <2>3. loc[th].job = "create" => loc[th].att = None BY <2>2, Here DEF Fits
  <2> QED BY <2>1, <2>2, <2>3, QuietAfterListing
<1> QED BY <1>1, <1>2, <1>3, <1>4

LEMMA QuietReserve ==
    ASSUME LeaseInv, DisableInv, NEW th \in Threads, Reserve(th) PROVE DisableInv'
<1>1. /\ pc[th] = "reserve" /\ loc[th] \in Local
      /\ UNCHANGED <<state, links, row, undone>>
  BY Here DEF Reserve, dbVars, engVars, sysVars
<1>2. CASE Return(th) /\ UNCHANGED owner
  <2>1. NothingNew BY <1>1, <1>2, UnchangedIsNothingNew
  <2> QED BY <1>1, <1>2, <2>1, ReturnQuietly
<1>3. ASSUME NEW a \in Attempts, owner[a] = None,
             owner' = [owner EXCEPT ![a] = loc[th].ten],
             Goto(th, "send", [loc[th] EXCEPT !.att = a])
      PROVE  DisableInv'
  <2> DEFINE l == [loc[th] EXCEPT !.att = a]
  <2>1. l.att = a /\ l.ten = loc[th].ten BY <1>1 DEF Local
  <2>2. OwnersStay /\ owner'[a] = loc[th].ten
    BY <1>3 DEF OwnersStay, LeaseInv, TypeOK
  <2>3. NothingNew BY <1>1, <2>2 DEF NothingNew
  <2> HIDE DEF l
  <2> QED BY <1>1, <1>3, <2>1, <2>2, <2>3, GoQuietly DEF l
<1> QED BY <1>1, <1>2, <1>3 DEF Reserve, dbVars

LEMMA QuietCreate ==
    ASSUME LeaseInv, DisableInv, NEW th \in Threads,
           SendCreate(th) \/ CreateAnswered(th) \/ CreateUncertain(th)
             \/ CreateRejected(th) \/ Note(th)
    PROVE  DisableInv'
<1>1. /\ UNCHANGED <<state, owner, links, undone>>
      /\ pc[th] \in {"send", "await", "note"}
  BY DEF SendCreate, CreateAnswered, CreateUncertain, CreateRejected, Note,
     dbVars, engVars, sysVars
<1>2. OwnersStay BY <1>1 DEF OwnersStay
<1>3. \A a \in links : row'[a] = "up" => row[a] = "up"
  BY DEF SendCreate, CreateAnswered, CreateUncertain, CreateRejected, Note,
     engVars, LeaseInv, TypeOK
<1>4. NothingNew BY <1>1, <1>2, <1>3 DEF NothingNew
<1>5. PICK step \in {"await", "note", "complete", "compensate", "finally"}, l \in Local :
        Goto(th, step, l) /\ Likewise(th, l)
  <2>1. CASE SendCreate(th) \/ CreateAnswered(th) \/ Note(th)
    BY <2>1, LikewiseSelf DEF SendCreate, CreateAnswered, Note, Likewise
  <2>2. CASE CreateUncertain(th)
    <3> DEFINE l == [loc[th] EXCEPT !.release = FALSE]
    <3>1. Likewise(th, l) /\ l \in Local BY LikewiseSelf DEF Likewise
    <3> HIDE DEF l
    <3> QED BY <2>2, <3>1 DEF CreateUncertain, l
  <2>3. CASE CreateRejected(th)
    <3>1. PICK b \in {FALSE, row[loc[th].att] = "refused"} :
            Goto(th, "finally", [loc[th] EXCEPT !.refused = TRUE, !.release = b])
      BY <2>3 DEF CreateRejected
    <3> DEFINE l == [loc[th] EXCEPT !.refused = TRUE, !.release = b]
    <3>2. b \in BOOLEAN OBVIOUS
    <3>3. Likewise(th, l) /\ l \in Local BY <3>2, LikewiseSelf DEF Likewise
    <3> HIDE DEF l
    <3> QED BY <3>1, <3>3 DEF l
  <2> QED BY <2>1, <2>2, <2>3
<1>6. (l.job = "create" /\ l.att # None) => l.ten = owner'[l.att]
  BY <1>2, <1>5, StayOwn
<1> QED BY <1>1, <1>4, <1>5, <1>6, GoQuietly

\* An engine row only leaves "up" when a tunnel is deleted.
LEMMA DeletesLess ==
    ASSUME LeaseInv, NEW a \in Attempts, Deletes(a) \/ FindsNone(a) \/ FailsToDelete(a)
    PROVE  \A b \in Attempts : row'[b] = "up" => row[b] = "up"
BY DEF Deletes, FindsNone, FailsToDelete, engVars, LeaseInv, TypeOK

LEMMA QuietSettle ==
    ASSUME LeaseInv, DisableInv, NEW th \in Threads,
           Unlink(th) \/ Compensate(th) \/ Finally(th) \/ DeleteTunnel(th)
    PROVE  DisableInv'
<1>1. /\ UNCHANGED <<state, owner, undone>> /\ links' \subseteq links
      /\ pc[th] \in {"unlink", "compensate", "finally", "delete"}
  BY DEF Unlink, Compensate, Finally, DeleteTunnel, dbVars, engVars, sysVars
<1>2. OwnersStay BY <1>1 DEF OwnersStay
<1>3. NothingNew
  <2>1. CASE UNCHANGED row BY <1>1, <2>1, UnchangedIsNothingNew
  <2>2. CASE Compensate(th) \/ DeleteTunnel(th)
    <3>1. loc[th].att \in Attempts
      BY <2>2, Here DEF Compensate, DeleteTunnel, WithAttempt
    <3>2. \A b \in Attempts : row'[b] = "up" => row[b] = "up"
      BY <2>2, <3>1, DeletesLess DEF Compensate, DeleteTunnel
    <3> QED BY <1>1, <1>2, <3>2 DEF NothingNew, LeaseInv, TypeOK
  <2> QED BY <2>1, <2>2 DEF Unlink, Finally, engVars
<1>4. CASE Return(th) BY <1>1, <1>3, <1>4, ReturnQuietly
<1>5. ASSUME NEW step, NEW l \in Local, Goto(th, step, l), Likewise(th, l)
      PROVE  DisableInv'
  <2>1. (l.job = "create" /\ l.att # None) => l.ten = owner'[l.att]
    BY <1>2, <1>5, StayOwn
  <2> QED BY <1>1, <1>3, <1>5, <2>1, GoQuietly
<1>6. CASE Unlink(th) \/ DeleteTunnel(th)
  <2>1. Likewise(th, loc[th]) /\ loc[th] \in Local BY LikewiseSelf DEF Likewise
  <2> QED BY <1>4, <1>5, <1>6, <2>1 DEF Unlink, DeleteTunnel
<1>7. CASE Compensate(th)
  <2>1. PICK b \in BOOLEAN : Goto(th, "finally", [loc[th] EXCEPT !.release = b])
    BY <1>7 DEF Compensate
  <2> DEFINE l == [loc[th] EXCEPT !.release = b]
  <2>2. Likewise(th, l) /\ l \in Local BY LikewiseSelf DEF Likewise
  <2> HIDE DEF l
  <2> QED BY <1>5, <2>1, <2>2 DEF l
<1> QED BY <1>4, <1>6, <1>7 DEF Finally

-----------------------------------------------------------------------------
(* The disable, the link it may race, and the clean-up.                     *)

LEMMA DisableTakesOn ==
    ASSUME LeaseInv, DisableInv, NEW th \in Threads, NEW t \in Tenants, Disable(th, t)
    PROVE  DisableInv'
<1> DEFINE l == [NoLocal EXCEPT !.job = "disable", !.ten = t]
<1>1. l.att = None /\ l.ten = t BY DEF NoLocal
<1>2. /\ pc[th] = "idle" /\ UNCHANGED <<owner, links, row, undone>>
      /\ state' = [state EXCEPT ![t] = "disabled"]
  BY DEF Disable, engVars, sysVars
<1> HIDE DEF l
<1>3. Goto(th, "mapping", l) BY DEF Disable, l
<1>4. Accounts(th, "mapping", l)
  <2>1. ASSUME NEW a \in links, state'[owner[a]] = "disabled", owner[a] # t
        PROVE  state[owner[a]] = "disabled"
    <3>1. owner[a] \in Tenants
      BY DEF LeaseInv, TypeOK, LiveCounted, FreshUnused
    <3> QED BY <1>2, <2>1, <3>1 DEF LeaseInv, TypeOK
  <2> QED BY <1>1, <1>2, <2>1 DEF Accounts, Works
<1>5. OwnersStay BY <1>2 DEF OwnersStay
<1> QED BY <1>1, <1>2, <1>3, <1>4, <1>5, Go

LEMMA CompleteTakesOn ==
    ASSUME LeaseInv, DisableInv, NEW th \in Threads, Complete(th) PROVE DisableInv'
<1> DEFINE a == loc[th].att
<1>1. /\ pc[th] = "complete" /\ UNCHANGED <<state, owner, row, undone>>
  BY DEF Complete, engVars, sysVars
<1>2. /\ a \in Attempts /\ slot[a] # "none" /\ loc[th].ten = owner[a]
  BY <1>1, Here DEF Fits, WithAttempt, Pending, DisableInv, TenantOwn
<1>3. OwnersStay BY <1>1 DEF OwnersStay
<1>4. CASE Goto(th, "compensate", loc[th]) /\ UNCHANGED links
  <2>1. Likewise(th, loc[th]) BY LikewiseSelf
  <2>2. NothingNew BY <1>1, <1>4, UnchangedIsNothingNew
  <2>3. (loc[th].job = "create" /\ loc[th].att # None) => loc[th].ten = owner'[loc[th].att]
    BY <1>3, <2>1, StayOwn
  <2> QED BY <1>1, <1>4, <2>2, <2>3, GoQuietly
<1>5. ASSUME links' = links \cup {a}, NEW step,
             step = IF state[loc[th].ten] = "active" THEN "finally" ELSE "undo",
             Goto(th, step, [loc[th] EXCEPT !.release = TRUE])
      PROVE  DisableInv'
  <2> DEFINE l == [loc[th] EXCEPT !.release = TRUE]
  <2>1. Likewise(th, l) BY LikewiseSelf
  <2>2. (l.job = "create" /\ l.att # None) => l.ten = owner'[l.att]
    BY <1>3, <2>1, StayOwn
  <2>3. l.att = a /\ l.ten = owner[a] BY <1>2, <2>1 DEF Likewise
  <2> HIDE DEF l
  <2>4. state[owner[a]] = "disabled" => Works(step, l, owner', a)
    BY <1>1, <1>2, <1>5, <2>3 DEF Works
  <2> HIDE DEF a
  <2>5. Accounts(th, step, l)
    BY <1>1, <1>5, <2>4 DEF Accounts, Works
  <2> QED BY <1>1, <1>3, <1>5, <2>2, <2>5, Go DEF l
<1> QED BY <1>2, <1>4, <1>5 DEF Complete

\* An undone create deletes its tunnel or puts it on record.
LEMMA UndoAccounts ==
    ASSUME LeaseInv, DisableInv, NEW th \in Threads, Undo(th) PROVE DisableInv'
<1> DEFINE a == loc[th].att
<1>1. pc[th] = "undo" /\ UNCHANGED <<state, owner, slot, links>>
  BY DEF Undo, dbVars
<1>2. a \in Attempts BY <1>1, Here DEF WithAttempt
<1>3. OwnersStay BY <1>1 DEF OwnersStay
<1>4. Likewise(th, loc[th]) BY LikewiseSelf
<1>5. (loc[th].job = "create" /\ loc[th].att # None) => loc[th].ten = owner'[loc[th].att]
  BY <1>3, <1>4, StayOwn
<1>6. PICK step \in {"unlink", "finally"} : Goto(th, step, loc[th]) BY DEF Undo
<1>7. undone \subseteq undone' BY DEF Undo
<1>8. /\ \A b \in Attempts : row'[b] = "up" => row[b] = "up"
      /\ row'[a] = "up" => a \in undone'
  BY <1>2, DeletesLess DEF Undo, Deletes, LeaseInv, TypeOK
<1> HIDE DEF a
<1>9. Accounts(th, step, loc[th])
  BY <1>1, <1>8 DEF Accounts, Works, a, LeaseInv, TypeOK
<1> QED BY <1>3, <1>5, <1>6, <1>7, <1>9, Go

\* The admin's thread keeps what is left of its list.
LEMMA SweepOnAccounts ==
    ASSUME LeaseInv, DisableInv, NEW th \in Threads, NEW todo \in SUBSET Attempts,
           SweepOn(th, todo), pc[th] \in {"mapping", "sweep", "strike"},
           UNCHANGED <<state, owner, row>>, links' \subseteq links,
           undone \subseteq undone',
           \A a \in links' : row[a] = "up" /\ Works(pc[th], loc[th], owner, a)
               => a \in todo \/ a \in undone'
    PROVE  DisableInv'
<1> DEFINE l == [loc[th] EXCEPT !.att = None, !.todo = todo]
<1>1. OwnersStay BY DEF OwnersStay
<1>2. CASE todo = {} /\ Return(th)
  <2>1. ~(NoLocal.job = "create") BY DEF NoLocal
  <2>2. Accounts(th, "idle", NoLocal) BY <1>2 DEF Accounts
  <2> QED BY <1>1, <1>2, <2>1, <2>2, Go DEF Return
<1>3. CASE Goto(th, "sweep", l)
  <2>1. l.att = None /\ l.todo = todo /\ l.ten = loc[th].ten BY Here DEF Local
  <2> HIDE DEF l
  <2>2. \A a \in todo : loc[th].ten = owner'[a] => Works("sweep", l, owner', a)
    BY <2>1 DEF Works
  <2>3. \A a : Works(pc[th], loc[th], owner, a) => loc[th].ten = owner[a]
    BY DEF Works
  <2>4. Accounts(th, "sweep", l) BY <2>2, <2>3 DEF Accounts
  <2> QED BY <1>1, <1>3, <2>1, <2>4, Go
<1> QED BY <1>2, <1>3 DEF SweepOn

LEMMA MappingAccounts ==
    ASSUME LeaseInv, DisableInv, NEW th \in Threads, ReadMapping(th) PROVE DisableInv'
<1>1. /\ pc[th] = "mapping" /\ SweepOn(th, Linked(loc[th].ten))
      /\ UNCHANGED <<state, owner, links, row, undone>>
  BY DEF ReadMapping, dbVars, engVars, sysVars
<1>2. Linked(loc[th].ten) \in SUBSET Attempts BY DEF Linked, LeaseInv, TypeOK
<1>3. \A a \in links : Works(pc[th], loc[th], owner, a) => a \in Linked(loc[th].ten)
  BY DEF Works, Linked
<1> QED BY <1>1, <1>2, <1>3, SweepOnAccounts

LEMMA SweepAccounts ==
    ASSUME LeaseInv, DisableInv, NEW th \in Threads, Sweep(th) PROVE DisableInv'
<1>1. pc[th] = "sweep" /\ UNCHANGED <<state, owner, slot, links>>
  BY DEF Sweep, dbVars
<1>2. PICK a \in loc[th].todo :
        \/ /\ Deletes(a) \/ FindsNone(a)
           /\ Goto(th, "strike", [loc[th] EXCEPT !.att = a, !.todo = @ \ {a}])
           /\ UNCHANGED undone
        \/ /\ FailsToDelete(a)
           /\ undone' = undone \cup {a}
           /\ SweepOn(th, loc[th].todo \ {a})
  BY DEF Sweep
<1>3. a \in Attempts /\ loc[th].todo \ {a} \in SUBSET Attempts BY Here
<1>4. CASE FailsToDelete(a) /\ undone' = undone \cup {a} /\ SweepOn(th, loc[th].todo \ {a})
  <2>1. UNCHANGED row BY <1>4 DEF FailsToDelete
  <2>2. \A b : Works(pc[th], loc[th], owner, b) => b \in loc[th].todo \ {a} \/ b \in undone'
    BY <1>1, <1>4 DEF Works
  <2> QED BY <1>1, <1>3, <1>4, <2>1, <2>2, SweepOnAccounts
<1>5. CASE /\ Deletes(a) \/ FindsNone(a)
           /\ Goto(th, "strike", [loc[th] EXCEPT !.att = a, !.todo = @ \ {a}])
           /\ UNCHANGED undone
  <2> DEFINE l == [loc[th] EXCEPT !.att = a, !.todo = @ \ {a}]
  <2>1. /\ l.todo = loc[th].todo \ {a} /\ l.ten = loc[th].ten /\ l.job # "create"
    BY <1>1, Here DEF Local, Fits
  <2>2. \A b \in Attempts : row'[b] = "up" => row[b] = "up" /\ b # a
    BY <1>3, <1>5, DeletesLess DEF Deletes, FindsNone, engVars, LeaseInv, TypeOK
  <2> HIDE DEF l
  <2>3. \A b : b # a /\ Works(pc[th], loc[th], owner, b) => Works("strike", l, owner', b)
    BY <1>1, <2>1 DEF Works
  <2>4. Accounts(th, "strike", l)
    BY <1>1, <2>2, <2>3 DEF Accounts, LeaseInv, TypeOK
  <2>5. OwnersStay BY <1>1 DEF OwnersStay
  <2> QED BY <1>5, <2>1, <2>4, <2>5, Go DEF l
<1> QED BY <1>2, <1>4, <1>5

LEMMA StrikeAccounts ==
    ASSUME LeaseInv, DisableInv, NEW th \in Threads, Strike(th) PROVE DisableInv'
<1>1. /\ pc[th] = "strike" /\ UNCHANGED <<state, owner, slot, row>>
      /\ loc[th].todo \in SUBSET Attempts
  BY Here DEF Strike, engVars
<1>2. \A a : Works(pc[th], loc[th], owner, a) => a \in loc[th].todo
  BY <1>1 DEF Works
<1>3. CASE links' = links \ {loc[th].att} /\ SweepOn(th, loc[th].todo) /\ UNCHANGED undone
  BY <1>1, <1>2, <1>3, SweepOnAccounts
<1>4. CASE Return(th) /\ undone' = undone \cup loc[th].todo /\ UNCHANGED links
  <2>1. Accounts(th, "idle", NoLocal) BY <1>1, <1>2, <1>4 DEF Accounts
  <2>2. OwnersStay /\ ~(NoLocal.job = "create") BY <1>1 DEF OwnersStay, NoLocal
  <2> QED BY <1>4, <2>1, <2>2, Go DEF Return
<1> QED BY <1>3, <1>4 DEF Strike

LEMMA EngineHarmless ==
    ASSUME LeaseInv, DisableInv, NEW a \in Attempts, EngineStep(a) PROVE DisableInv'
<1>1. UNCHANGED <<state, owner, links, pc, loc, undone>>
  BY DEF EngineStep, EngineRefuses, EngineSavesRow, EngineRollsBack, EngineStarts,
     HostDeletes, EngineWritesBack, EngineDeletesLate, Engine, dbVars, thVars, sysVars
<1>2. \A b \in links : row'[b] = "up" => row[b] = "up"
  <2>1. ASSUME NEW from, NEW to, Engine(a, from, to), to # "up" \/ from = {"creating"}
        PROVE  \A b \in links : row'[b] = "up" => row[b] = "up"
    BY <2>1 DEF Engine, LeaseInv, TypeOK, LiveCounted, Arrived
  <2> QED BY <2>1 DEF EngineStep, EngineRefuses, EngineSavesRow, EngineRollsBack,
       EngineStarts, HostDeletes, EngineWritesBack, EngineDeletesLate
<1> QED BY <1>1, <1>2 DEF DisableInv, TenantOwn, Swept, Works

LEMMA CrashRecords ==
    ASSUME LeaseInv, DisableInv, Crash PROVE DisableInv'
<1>1. TenantOwn' BY DEF Crash, TenantOwn, NoLocal
<1>2. Swept' BY DEF Crash, dbVars, engVars, DisableInv, Swept, Works
<1> QED BY <1>1, <1>2 DEF DisableInv

LEMMA DisableNext == LeaseInv /\ DisableInv /\ [Next]_vars => DisableInv'
<1> SUFFICES ASSUME LeaseInv, DisableInv, [Next]_vars PROVE DisableInv'
  OBVIOUS
<1>1. CASE UNCHANGED vars
  BY <1>1 DEF vars, DisableInv, TenantOwn, Swept, Works
<1>2. ASSUME NEW th \in Threads, Request(th) PROVE DisableInv'
  BY <1>2, QuietReads, QuietReserve, QuietCreate, QuietSettle, DisableTakesOn,
     CompleteTakesOn, UndoAccounts, MappingAccounts, SweepAccounts, StrikeAccounts
     DEF Request
<1>3. CASE \E a \in Attempts : EngineStep(a) BY <1>3, EngineHarmless
<1>4. CASE Crash BY <1>4, CrashRecords
<1> QED BY <1>1, <1>2, <1>3, <1>4 DEF Next

\* When the requests of a disabled tenant are over, a tunnel in its mapping still
\* runs only if its clean-up was seen to fail: admin_disable reads the mapping
\* after it set the state, complete_reservation reads the state with the link.
THEOREM DisableIsThorough == Spec => []DisableReachesAll
BY InitDisable, DisableNext, SweptImplies, LeaseInvariant, PTL DEF Spec
=============================================================================
