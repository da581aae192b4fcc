------------------------- MODULE CronSchedulerProofs -------------------------
(***************************************************************************)
(* Theorems about CronScheduler, for every set of jobs and all bounds: its *)
(* types, that jobs.json keeps what clients gave, that an enabled job is   *)
(* scheduled, and that the state of a job settles.                         *)
(*                                                                         *)
(* An execution changes no definition (WorkKeeps), so what clients gave is *)
(* a matter of the edits and of starting and stopping.  State settles      *)
(* because an execution of a job that was not replaced works on the object *)
(* that _jobs has (FileMatches), and the counters because each execution   *)
(* under way has counted itself once already (Counts).                     *)
(***************************************************************************)
EXTENDS CronScheduler, SequenceTheorems, FiniteSetTheorems, TLAPS

\* The part of a sequence before a position and the part after it: an execution that
\* ends is taken out of the list.
LEMMA Halves ==
    ASSUME NEW D, NEW q \in Seq(D), NEW h \in Nat, h <= Len(q)
    PROVE  /\ SubSeq(q, 1, h) \in Seq(D) /\ Len(SubSeq(q, 1, h)) = h
           /\ \A i \in 1..h : SubSeq(q, 1, h)[i] = q[i]
           /\ SubSeq(q, h + 1, Len(q)) \in Seq(D)
           /\ Len(SubSeq(q, h + 1, Len(q))) = Len(q) - h
           /\ \A i \in 1..(Len(q) - h) : SubSeq(q, h + 1, Len(q))[i] = q[h + i]
OBVIOUS

\* Taking out the element at position h + 1.
LEMMA CutOut ==
    ASSUME NEW D, NEW q \in Seq(D), NEW h \in Nat, h + 1 <= Len(q)
    PROVE  \A p : p = SubSeq(q, 1, h) \o SubSeq(q, h + 1 + 1, Len(q)) =>
             /\ p \in Seq(D) /\ Len(p) = Len(q) - 1
             /\ \A i \in 1..h : p[i] = q[i]
             /\ \A i \in (h + 1)..(Len(q) - 1) : p[i] = q[i + 1]
<1>1. Len(q) \in Nat /\ h + 1 \in Nat /\ h <= Len(q)
  OBVIOUS
<1>2. PICK front : front = SubSeq(q, 1, h)
  OBVIOUS
<1>3. PICK back : back = SubSeq(q, h + 1 + 1, Len(q))
  OBVIOUS
<1>f. front \in Seq(D) /\ Len(front) = h /\ \A i \in 1..h : front[i] = q[i]
  BY <1>1, <1>2, Halves
<1>b. /\ back \in Seq(D) /\ Len(back) = Len(q) - (h + 1)
      /\ \A i \in 1..(Len(q) - (h + 1)) : back[i] = q[h + 1 + i]
  <2>1. /\ SubSeq(q, h + 1 + 1, Len(q)) \in Seq(D)
        /\ Len(SubSeq(q, h + 1 + 1, Len(q))) = Len(q) - (h + 1)
        /\ \A i \in 1..(Len(q) - (h + 1)) : SubSeq(q, h + 1 + 1, Len(q))[i] = q[h + 1 + i]
    BY <1>1, Halves
  <2> QED BY <1>3, <2>1
<1>4. PICK p : p = front \o back
  OBVIOUS
<1>c. /\ p \in Seq(D) /\ Len(p) = Len(front) + Len(back)
      /\ \A i \in 1..(Len(front) + Len(back)) :
           p[i] = IF i <= Len(front) THEN front[i] ELSE back[i - Len(front)]
  BY <1>f, <1>b, <1>4, ConcatProperties
<1>5. Len(p) = Len(q) - 1 /\ Len(front) + Len(back) = Len(q) - 1
  BY <1>1, <1>f, <1>b, <1>c
<1>6. \A i \in 1..h : p[i] = q[i]
  BY <1>1, <1>f, <1>c, <1>5
<1>7. ASSUME NEW i \in (h + 1)..(Len(q) - 1)
      PROVE  p[i] = q[i + 1]
  <2>1. i - h \in 1..(Len(q) - (h + 1)) /\ h + 1 + (i - h) = i + 1
    BY <1>1
  <2>2. p[i] = back[i - h]
    BY <1>1, <1>f, <1>c, <1>5
  <2> QED BY <1>b, <2>1, <2>2
<1>8. \A r : r = SubSeq(q, 1, h) \o SubSeq(q, h + 1 + 1, Len(q)) => r = p
  BY <1>2, <1>3, <1>4
<1> QED BY <1>c, <1>5, <1>6, <1>7, <1>8
-----------------------------------------------------------------------------
TypeInv == TypeOK /\ (~up => live = {} /\ executions = <<>>)

Kept ==
    mishaps \intersect {"torn", "raised"} = {} =>
        /\ Persists
        /\ up => live = DOMAIN wanted /\ \A id \in live : Definition(Current(id)) = wanted[id]

\* Executions under way of a job.
Under(id, x) == {i \in DOMAIN x : x[i].id = id}

FileMatches ==
    up /\ mishaps \intersect {"replaced", "raised"} = {} =>
        /\ \A id \in live : /\ id \in DOMAIN file
                            /\ Definition(file[id]) = Definition(Current(id))
                            /\ Idle(id) => file[id] = Current(id)
        /\ \A i \in DOMAIN executions : executions[i].id \in live =>
               executions[i].object = Len(objects[executions[i].id])

Counts ==
    mishaps = {} =>
        /\ \A id \in DOMAIN file : /\ counted[id].ended <= file[id].total
                                   /\ file[id].total <= counted[id].begun
        /\ up => live = DOMAIN file
        /\ up => \A id \in live :
               /\ counted[id].ended + Cardinality(Under(id, executions)) <= Current(id).total
               /\ Current(id).total <= counted[id].begun

-----------------------------------------------------------------------------
Executes == \E id \in Ids : TriggerFires(id) \/ RunNow(id)

Proceeds ==
    \E i \in DOMAIN executions : HookReturns(i) \/ Succeed(i) \/ Fail(i) \/ PersistFailure(i)

Edits ==
    \E id \in Ids : \/ \E trigger \in Triggers, enabled \in BOOLEAN : AddJob(id, trigger, enabled)
                    \/ RemoveJob(id) \/ EnableJob(id) \/ DisableJob(id)

\* The objects o, object n of job x written anew.
Put(o, x, n, j) == [o EXCEPT ![x][n] = j]

\* One object of a job is written anew; the others stay.
LEMMA Rewritten ==
    ASSUME NEW o \in [Ids -> Seq(Job)], NEW x \in Ids, NEW n \in DOMAIN o[x], NEW j \in Job
    PROVE  \A p : p = Put(o, x, n, j) =>
             /\ p \in [Ids -> Seq(Job)]
             /\ \A y \in Ids : y # x => p[y] = o[y]
             /\ Len(p[x]) = Len(o[x]) /\ p[x][n] = j
             /\ \A k \in DOMAIN o[x] : k # n => p[x][k] = o[x][k]
<1>1. PICK q : q = [o[x] EXCEPT ![n] = j]
  OBVIOUS
<1>2. o[x] \in Seq(Job)
  OBVIOUS
<1>3. /\ q \in Seq(Job) /\ Len(q) = Len(o[x]) /\ q[n] = j
      /\ \A k \in DOMAIN o[x] : k # n => q[k] = o[x][k]
  BY <1>1, <1>2
<1>4. \A p : p = Put(o, x, n, j) => p = [o EXCEPT ![x] = q]
  BY <1>1 DEF Put
<1> QED BY <1>3, <1>4

\* An execution ends: the others stay, those after it one place earlier.
LEMMA OthersStay ==
    ASSUME NEW x \in Seq(Execution), NEW i \in DOMAIN x
    PROVE  \A y : y = RemoveAt(x, i) =>
             /\ y \in Seq(Execution) /\ Len(y) = Len(x) - 1
             /\ \A k \in DOMAIN y : k < i => k \in DOMAIN x /\ y[k] = x[k]
             /\ \A k \in DOMAIN y : ~(k < i) => k + 1 \in DOMAIN x /\ y[k] = x[k + 1]
<1>1. PICK h \in Nat : i = h + 1 /\ i - 1 = h /\ h + 1 <= Len(x)
  <2>1. i - 1 \in Nat /\ i = (i - 1) + 1 /\ (i - 1) + 1 <= Len(x)
    OBVIOUS
  <2> QED BY <2>1
<1>2. \A y : y = SubSeq(x, 1, h) \o SubSeq(x, h + 1 + 1, Len(x)) =>
        /\ y \in Seq(Execution) /\ Len(y) = Len(x) - 1
        /\ \A k \in 1..h : y[k] = x[k]
        /\ \A k \in (h + 1)..(Len(x) - 1) : y[k] = x[k + 1]
  BY <1>1, CutOut, Zenon
<1>3. ASSUME NEW y, y = RemoveAt(x, i)
      PROVE  /\ y \in Seq(Execution) /\ Len(y) = Len(x) - 1
             /\ \A k \in 1..h : y[k] = x[k]
             /\ \A k \in (h + 1)..(Len(x) - 1) : y[k] = x[k + 1]
  <2>1. y = SubSeq(x, 1, h) \o SubSeq(x, h + 1 + 1, Len(x))
    <3>1. y = SubSeq(x, 1, i - 1) \o SubSeq(x, i + 1, Len(x))
      BY <1>3 DEF RemoveAt
    <3>2. i - 1 = h /\ i + 1 = h + 1 + 1
      BY <1>1
    <3> QED BY <3>1, <3>2
  <2> QED BY <1>2, <2>1, Zenon
<1>4. ASSUME NEW y, y = RemoveAt(x, i), NEW k \in DOMAIN y
      PROVE  /\ k < i => k \in DOMAIN x /\ y[k] = x[k]
             /\ ~(k < i) => k + 1 \in DOMAIN x /\ y[k] = x[k + 1]
  <2>1. /\ y \in Seq(Execution) /\ Len(y) = Len(x) - 1
        /\ \A m \in 1..h : y[m] = x[m]
        /\ \A m \in (h + 1)..(Len(x) - 1) : y[m] = x[m + 1]
    BY <1>3, <1>4
  <2>2. k \in 1..(Len(x) - 1) /\ Len(x) \in Nat /\ DOMAIN x = 1..Len(x)
    BY <2>1
  <2>3. k < i => k \in 1..h /\ k \in 1..Len(x)
    BY <1>1, <2>2
  <2>4. ~(k < i) => k \in (h + 1)..(Len(x) - 1) /\ k + 1 \in 1..Len(x)
    BY <1>1, <2>2
  <2> QED BY <2>1, <2>2, <2>3, <2>4
<1> QED BY <1>3, <1>4

\* The object of an execution, and the current object of a job that exists.
LEMMA ObjectTypes ==
    ASSUME TypeInv
    PROVE  /\ \A i \in DOMAIN executions :
                /\ executions[i] \in Execution
                /\ executions[i].id \in Ids
                /\ executions[i].object \in DOMAIN objects[executions[i].id]
                /\ objects[executions[i].id][executions[i].object] \in Job
           /\ \A id \in live : /\ id \in Ids /\ Len(objects[id]) \in DOMAIN objects[id]
                               /\ Current(id) \in Job
           /\ \A id \in Ids : objects[id] \in Seq(Job)
<1>1. \A id \in Ids : objects[id] \in Seq(Job)
  BY DEF TypeInv, TypeOK
<1>2. ASSUME NEW i \in DOMAIN executions
      PROVE  /\ executions[i] \in Execution
             /\ executions[i].id \in Ids
             /\ executions[i].object \in DOMAIN objects[executions[i].id]
             /\ objects[executions[i].id][executions[i].object] \in Job
  <2>1. executions[i] \in Execution
    BY DEF TypeInv, TypeOK
  <2>2. executions[i].id \in Ids
    BY <2>1 DEF Execution
  <2>3. executions[i].object \in DOMAIN objects[executions[i].id]
    BY DEF TypeInv, TypeOK
  <2> QED BY <1>1, <2>1, <2>2, <2>3
<1>3. ASSUME NEW id \in live
      PROVE  id \in Ids /\ Len(objects[id]) \in DOMAIN objects[id] /\ Current(id) \in Job
  <2>1. id \in Ids /\ objects[id] # <<>>
    BY DEF TypeInv, TypeOK
  <2>2. objects[id] \in Seq(Job)
    BY <1>1, <2>1
  <2>3. Len(objects[id]) \in DOMAIN objects[id]
    BY <2>1, <2>2, EmptySeq
  <2> QED BY <2>1, <2>2, <2>3 DEF Current, Last
<1> QED BY <1>1, <1>2, <1>3

\* update_state changes the entry of one job, and no definition.
LEMMA UpdateKeeps ==
    ASSUME TypeInv, NEW id \in Ids, NEW job \in Job
    PROVE  \A f : f = UpdateState(id, job) =>
             /\ DOMAIN f = DOMAIN file
             /\ \A j \in DOMAIN file : /\ f[j] \in Job /\ Definition(f[j]) = Definition(file[j])
                                       /\ j # id => f[j] = file[j]
             /\ id \in DOMAIN file => /\ f[id].status = job.status /\ f[id].errors = job.errors
                                      /\ f[id].total = job.total
<1>1. \A j \in DOMAIN file : file[j] \in Job
  BY DEF TypeInv, TypeOK
<1>2. SUFFICES ASSUME NEW f, f = UpdateState(id, job), id \in DOMAIN file
               PROVE  /\ DOMAIN f = DOMAIN file
                      /\ \A j \in DOMAIN file : j # id => f[j] = file[j]
                      /\ f[id] \in Job /\ Definition(f[id]) = Definition(file[id])
                      /\ f[id].status = job.status /\ f[id].errors = job.errors
                      /\ f[id].total = job.total
  BY <1>1, Zenon DEF UpdateState
<1>3. /\ DOMAIN f = DOMAIN file
      /\ \A j \in DOMAIN file : j # id => f[j] = file[j]
      /\ f[id] = [file[id] EXCEPT !.status = job.status, !.errors = job.errors, !.total = job.total]
  BY <1>2 DEF UpdateState
<1>4. PICK g : g = file[id] /\ g \in Job
  BY <1>1, <1>2
<1>5. f[id] = [g EXCEPT !.status = job.status, !.errors = job.errors, !.total = job.total]
  BY <1>3, <1>4
<1>6. f[id] \in Job /\ f[id].status = job.status /\ f[id].errors = job.errors
      /\ f[id].total = job.total /\ f[id].trigger = g.trigger /\ f[id].enabled = g.enabled
  BY <1>4, <1>5 DEF Job
<1> QED BY <1>3, <1>4, <1>6 DEF Definition
-----------------------------------------------------------------------------
(* Types.                                                                  *)

\* What a step of an execution leaves as it was.
DefinitionsSame ==
    /\ UNCHANGED <<up, live, schedule, wanted, mishaps>>
    /\ DOMAIN file' = DOMAIN file
    /\ \A id \in DOMAIN file : Definition(file'[id]) = Definition(file[id])
    /\ \A id \in live : Definition(Last(objects'[id])) = Definition(Current(id))

\* The objects of a job are as many as before, with the same definitions.
LEMMA ObjectsKept ==
    ASSUME TypeInv, NEW id \in Ids, NEW n \in DOMAIN objects[id], NEW j \in Job,
           Definition(j) = Definition(objects[id][n])
    PROVE  \A p : p = Put(objects, id, n, j) =>
             /\ p \in [Ids -> Seq(Job)]
             /\ \A y \in Ids : Len(p[y]) = Len(objects[y]) /\ DOMAIN p[y] = DOMAIN objects[y]
             /\ \A y \in live : p[y] # <<>> /\ Definition(Last(p[y])) = Definition(Current(y))
             /\ \A y \in Ids : y # id => p[y] = objects[y]
             /\ p[id][n] = j
<1>1. objects \in [Ids -> Seq(Job)]
  BY DEF TypeInv, TypeOK
<1>2. SUFFICES ASSUME NEW p, p = Put(objects, id, n, j)
               PROVE  /\ p \in [Ids -> Seq(Job)]
                      /\ \A y \in Ids : Len(p[y]) = Len(objects[y]) /\ DOMAIN p[y] = DOMAIN objects[y]
                      /\ \A y \in live : p[y] # <<>> /\ Definition(Last(p[y])) = Definition(Current(y))
                      /\ \A y \in Ids : y # id => p[y] = objects[y]
                      /\ p[id][n] = j
  OBVIOUS
<1>3. /\ p \in [Ids -> Seq(Job)]
      /\ \A y \in Ids : y # id => p[y] = objects[y]
      /\ Len(p[id]) = Len(objects[id]) /\ p[id][n] = j
      /\ \A k \in DOMAIN objects[id] : k # n => p[id][k] = objects[id][k]
  <2>1. \A q : q = Put(objects, id, n, j) =>
             /\ q \in [Ids -> Seq(Job)]
             /\ \A y \in Ids : y # id => q[y] = objects[y]
             /\ Len(q[id]) = Len(objects[id]) /\ q[id][n] = j
             /\ \A k \in DOMAIN objects[id] : k # n => q[id][k] = objects[id][k]
    BY <1>1, Rewritten
  <2> QED BY <1>2, <2>1, Zenon
<1>4. ASSUME NEW y \in Ids
      PROVE  Len(p[y]) = Len(objects[y]) /\ DOMAIN p[y] = DOMAIN objects[y]
  <2>1. p[y] \in Seq(Job) /\ objects[y] \in Seq(Job) /\ Len(p[y]) = Len(objects[y])
    BY <1>1, <1>3
  <2> QED BY <2>1
<1>5. ASSUME NEW y \in live
      PROVE  p[y] # <<>> /\ Definition(Last(p[y])) = Definition(Current(y))
  <2>1. y \in Ids /\ Len(objects[y]) \in DOMAIN objects[y] /\ objects[y] \in Seq(Job)
    BY ObjectTypes
  <2>2. p[y] \in Seq(Job) /\ Len(p[y]) = Len(objects[y]) /\ p[y] # <<>>
    BY <1>3, <1>4, <2>1
  <2>3. Definition(p[y][Len(objects[y])]) = Definition(objects[y][Len(objects[y])])
    <3>1. CASE y # id
      BY <1>3, <2>1, <3>1
    <3>2. CASE y = id /\ Len(objects[y]) # n
      BY <1>3, <2>1, <3>2
    <3>3. CASE y = id /\ Len(objects[y]) = n
      BY <1>3, <3>3
    <3> QED BY <3>1, <3>2, <3>3
  <2> QED BY <2>2, <2>3 DEF Current, Last
<1> QED BY <1>3, <1>4, <1>5

\* An execution begins.
LEMMA ExecuteKeeps ==
    ASSUME TypeInv, NEW id \in Ids, TriggerFires(id) \/ RunNow(id)
    PROVE  TypeInv' /\ DefinitionsSame
<1>1. id \in live /\ up /\ UNCHANGED <<up, live, file, wanted, schedule, mishaps>>
  BY DEF TriggerFires, RunNow, Executable
<1>2. PICK by \in {"trigger", "request"} : Execute(id, by)
  BY DEF TriggerFires, RunNow
<1>3. PICK n : n = Len(objects[id]) /\ n \in DOMAIN objects[id] /\ objects[id][n] \in Job
  BY <1>1, ObjectTypes
<1>4. PICK j : j = [Current(id) EXCEPT !.status = "running", !.total = @ + 1]
  OBVIOUS
<1>5. j \in Job /\ Definition(j) = Definition(objects[id][n])
  <2>1. PICK g : g = objects[id][n] /\ g = Current(id) /\ g \in Job
    BY <1>3 DEF Current, Last
  <2>4. PICK t \in Nat : t = g.total + 1
    BY <2>1 DEF Job
  <2>2. j = [g EXCEPT !.status = "running", !.total = t]
    BY <1>4, <2>1, <2>4
  <2>3. j \in Job /\ j.trigger = g.trigger /\ j.enabled = g.enabled
    BY <2>1, <2>2 DEF Job, Status
  <2> QED BY <2>1, <2>3 DEF Definition
<1>6. objects' = Put(objects, id, n, j)
  BY <1>2, <1>3, <1>4 DEF Execute, Put
<1>7. /\ objects' \in [Ids -> Seq(Job)]
      /\ \A y \in Ids : Len(objects'[y]) = Len(objects[y]) /\ DOMAIN objects'[y] = DOMAIN objects[y]
      /\ \A y \in live : objects'[y] # <<>> /\ Definition(Last(objects'[y])) = Definition(Current(y))
  <2>1. \A p : p = Put(objects, id, n, j) =>
             /\ p \in [Ids -> Seq(Job)]
             /\ \A y \in Ids : Len(p[y]) = Len(objects[y]) /\ DOMAIN p[y] = DOMAIN objects[y]
             /\ \A y \in live : p[y] # <<>> /\ Definition(Last(p[y])) = Definition(Current(y))
    BY <1>3, <1>5, ObjectsKept
  <2> QED BY <1>6, <2>1, Zenon
<1>8. PICK e : e = [id |-> id, object |-> n, by |-> by, phase |-> "fired"]
  OBVIOUS
<1>9. /\ e \in Execution /\ e.id = id /\ e.object = n
      /\ executions' = Append(executions, e)
  <2>1. n \in Nat
    BY <1>3, ObjectTypes
  <2> QED BY <1>2, <1>3, <1>8, <2>1 DEF Execute, Execution
<1>10. executions' \in Seq(Execution)
  BY <1>9 DEF TypeInv, TypeOK
<1>11. ASSUME NEW i \in DOMAIN executions'
       PROVE  executions'[i].object \in DOMAIN objects'[executions'[i].id]
  <2>1. executions \in Seq(Execution)
    BY DEF TypeInv, TypeOK
  <2>2. executions'[i] = e \/ (i \in DOMAIN executions /\ executions'[i] = executions[i])
    BY <1>9, <2>1
  <2>3. CASE executions'[i] = e
    BY <1>3, <1>7, <1>9, <2>3
  <2>4. CASE i \in DOMAIN executions /\ executions'[i] = executions[i]
    BY <1>7, <2>4, ObjectTypes
  <2> QED BY <2>2, <2>3, <2>4
<1>12. counted' \in [Ids -> [begun : Nat, ended : Nat]]
  <2>1. counted \in [Ids -> [begun : Nat, ended : Nat]]
    BY DEF TypeInv, TypeOK
  <2>2. counted[id].begun \in Nat /\ counted[id] \in [begun : Nat, ended : Nat]
    BY <2>1
  <2>3. counted' = [counted EXCEPT ![id].begun = @ + 1]
    BY <1>2 DEF Execute
  <2> QED BY <2>1, <2>2, <2>3
<1>13. used' \in [edits : 0..MaxEdits, executions : 0..MaxExecutions, starts : 0..MaxStarts]
  <2>1. used \in [edits : 0..MaxEdits, executions : 0..MaxExecutions, starts : 0..MaxStarts]
    BY DEF TypeInv, TypeOK
  <2>2. used.executions < MaxExecutions /\ used' = [used EXCEPT !.executions = @ + 1]
    BY <1>2 DEF Execute
  <2> QED BY <2>1, <2>2, CronAssumption
<1>14. TypeInv'
  BY <1>1, <1>7, <1>10, <1>11, <1>12, <1>13 DEF TypeInv, TypeOK
<1> QED BY <1>1, <1>7, <1>14 DEF DefinitionsSame

\* A job of an execution is written anew, with the same definition.
LEMMA RewriteTypes ==
    ASSUME TypeInv, NEW i \in DOMAIN executions, NEW j \in Job,
           Definition(j) = Definition(objects[executions[i].id][executions[i].object]),
           objects' = Put(objects, executions[i].id, executions[i].object, j)
    PROVE  /\ objects' \in [Ids -> Seq(Job)]
           /\ \A y \in Ids : Len(objects'[y]) = Len(objects[y]) /\ DOMAIN objects'[y] = DOMAIN objects[y]
           /\ \A y \in live : objects'[y] # <<>> /\ Definition(Last(objects'[y])) = Definition(Current(y))
           /\ \A y \in Ids : y # executions[i].id => objects'[y] = objects[y]
           /\ objects'[executions[i].id][executions[i].object] = j
<1>1. PICK id \in Ids : id = executions[i].id
  BY ObjectTypes
<1>2. PICK n \in DOMAIN objects[id] : n = executions[i].object
  BY <1>1, ObjectTypes
<1>3. Definition(j) = Definition(objects[id][n]) /\ objects' = Put(objects, id, n, j)
  BY <1>1, <1>2
<1>4. \A p : p = Put(objects, id, n, j) =>
             /\ p \in [Ids -> Seq(Job)]
             /\ \A y \in Ids : Len(p[y]) = Len(objects[y]) /\ DOMAIN p[y] = DOMAIN objects[y]
             /\ \A y \in live : p[y] # <<>> /\ Definition(Last(p[y])) = Definition(Current(y))
             /\ \A y \in Ids : y # id => p[y] = objects[y]
             /\ p[id][n] = j
  BY <1>3, ObjectsKept
<1> QED BY <1>1, <1>2, <1>3, <1>4

\* The object as it is after an execution that succeeds, or fails.
LEMMA Outcomes ==
    ASSUME NEW job \in Job
    PROVE  \A j : j = [job EXCEPT !.status = "success", !.errors = 0] \/ j = Failed(job) =>
             j \in Job /\ Definition(j) = Definition(job) /\ j.total = job.total
<1>1. PICK e \in Nat : e = job.errors + 1
  BY DEF Job
<1>2. Failed(job) = [job EXCEPT !.status = "error", !.errors = e]
  BY <1>1 DEF Failed
<1>3. ASSUME NEW j, j = Failed(job)
      PROVE  j \in Job /\ Definition(j) = Definition(job) /\ j.total = job.total
  <2>1. j = [job EXCEPT !.status = "error", !.errors = e]
    BY <1>2, <1>3
  <2>2. j \in Job /\ j.trigger = job.trigger /\ j.enabled = job.enabled /\ j.total = job.total
    BY <2>1 DEF Job, Status
  <2> QED BY <2>2 DEF Definition
<1>4. ASSUME NEW j, j = [job EXCEPT !.status = "success", !.errors = 0]
      PROVE  j \in Job /\ Definition(j) = Definition(job) /\ j.total = job.total
  <2>1. j \in Job /\ j.trigger = job.trigger /\ j.enabled = job.enabled /\ j.total = job.total
    BY <1>4 DEF Job, Status
  <2> QED BY <2>1 DEF Definition
<1> QED BY <1>3, <1>4

\* An execution that ends leaves the others on objects that exist.
LEMMA EndTypes ==
    ASSUME TypeInv, NEW i \in DOMAIN executions, Ends(i),
           \A y \in Ids : DOMAIN objects'[y] = DOMAIN objects[y]
    PROVE  /\ executions' \in Seq(Execution)
           /\ \A k \in DOMAIN executions' :
                executions'[k].object \in DOMAIN objects'[executions'[k].id]
           /\ counted' \in [Ids -> [begun : Nat, ended : Nat]]
<1>1. executions \in Seq(Execution) /\ executions' = RemoveAt(executions, i)
  BY DEF TypeInv, TypeOK, Ends
<1>2. /\ executions' \in Seq(Execution)
      /\ \A k \in DOMAIN executions' : k < i => k \in DOMAIN executions /\ executions'[k] = executions[k]
      /\ \A k \in DOMAIN executions' : ~(k < i) => k + 1 \in DOMAIN executions /\ executions'[k] = executions[k + 1]
  BY <1>1, OthersStay
<1>3. \A k \in DOMAIN executions' : \E m \in DOMAIN executions : executions'[k] = executions[m]
  BY <1>2
<1>4. ASSUME NEW k \in DOMAIN executions'
      PROVE  executions'[k].object \in DOMAIN objects'[executions'[k].id]
  <2>1. PICK m \in DOMAIN executions : executions'[k] = executions[m]
    BY <1>3
  <2>2. executions[m].id \in Ids /\ executions[m].object \in DOMAIN objects[executions[m].id]
    BY ObjectTypes
  <2> QED BY <2>1, <2>2
<1>5. counted' \in [Ids -> [begun : Nat, ended : Nat]]
  <2>1. PICK id \in Ids : id = executions[i].id
    BY ObjectTypes
  <2>2. counted \in [Ids -> [begun : Nat, ended : Nat]]
    BY DEF TypeInv, TypeOK
  <2>3. counted[id] \in [begun : Nat, ended : Nat] /\ counted[id].ended \in Nat
    BY <2>2
  <2>4. PICK n \in Nat : counted' = [counted EXCEPT ![id].ended = n]
    <3>1. counted' = [counted EXCEPT ![id].ended = counted[id].ended + 1]
          \/ counted' = [counted EXCEPT ![id].ended = counted[id].ended]
      BY <2>1 DEF Ends
    <3>2. counted[id].ended + 1 \in Nat
      BY <2>3
    <3> QED BY <2>3, <3>1, <3>2
  <2> QED BY <2>2, <2>3, <2>4
<1> QED BY <1>2, <1>4, <1>5

\* An execution waits, ends, or fails.
LEMMA ProceedKeeps ==
    ASSUME TypeInv, Proceeds
    PROVE  TypeInv' /\ DefinitionsSame
<1> PICK i \in DOMAIN executions : HookReturns(i) \/ Succeed(i) \/ Fail(i) \/ PersistFailure(i)
  BY DEF Proceeds
<1>1. executions \in Seq(Execution) /\ executions[i] \in Execution /\ executions # <<>>
  BY DEF TypeInv, TypeOK
<1>u. up
  BY <1>1 DEF TypeInv
<1>2. PICK id \in Ids : id = executions[i].id
  BY ObjectTypes
<1>3. PICK n \in DOMAIN objects[id] : n = executions[i].object
  BY <1>2, ObjectTypes
<1>4. PICK g \in Job : g = objects[id][n]
  BY <1>2, <1>3, ObjectTypes
<1>5. UNCHANGED <<up, live, schedule, wanted, mishaps, used>>
  BY DEF HookReturns, Succeed, Fail, PersistFailure
<1>f. \A phase \in {"executing", "failing"} :
        /\ [executions EXCEPT ![i].phase = phase] \in Seq(Execution)
        /\ \A k \in DOMAIN [executions EXCEPT ![i].phase = phase] :
             /\ [executions EXCEPT ![i].phase = phase][k].id = executions[k].id
             /\ [executions EXCEPT ![i].phase = phase][k].object = executions[k].object
             /\ k \in DOMAIN executions
  <2>1. ASSUME NEW phase \in {"executing", "failing"},
               NEW x, x = [executions EXCEPT ![i].phase = phase]
        PROVE  /\ x \in Seq(Execution)
               /\ \A k \in DOMAIN x : /\ x[k].id = executions[k].id
                                      /\ x[k].object = executions[k].object
                                      /\ k \in DOMAIN executions
    <3>1. PICK e : e = [executions[i] EXCEPT !.phase = phase]
      OBVIOUS
    <3>2. e \in Execution /\ e.id = executions[i].id /\ e.object = executions[i].object
      BY <1>1, <3>1 DEF Execution
    <3>3. x = [executions EXCEPT ![i] = e]
      BY <2>1, <3>1
    <3> QED BY <1>1, <3>2, <3>3
  <2> QED BY <2>1
<1>6. CASE HookReturns(i)
  <2>1. /\ executions' = [executions EXCEPT ![i].phase = "executing"]
        /\ UNCHANGED <<file, objects, counted>>
    BY <1>6 DEF HookReturns
  <2>2. /\ executions' \in Seq(Execution)
        /\ \A k \in DOMAIN executions' : /\ executions'[k].id = executions[k].id
                                         /\ executions'[k].object = executions[k].object
                                         /\ k \in DOMAIN executions
    BY <1>f, <2>1
  <2>3. TypeInv'
    BY <1>5, <1>u, <2>1, <2>2 DEF TypeInv, TypeOK
  <2> QED BY <1>5, <2>1, <2>3 DEF DefinitionsSame, Current
<1>7. CASE Succeed(i)
  <2>1. PICK j : j = [g EXCEPT !.status = "success", !.errors = 0]
    OBVIOUS
  <2>2. j \in Job /\ Definition(j) = Definition(g)
    BY <2>1, Outcomes
  <2>3. objects' = Put(objects, id, n, j) /\ file' = UpdateState(id, j) /\ Ends(i)
    BY <1>2, <1>3, <1>4, <1>7, <2>1 DEF Succeed, Put
  <2>4. /\ objects' \in [Ids -> Seq(Job)]
        /\ \A y \in Ids : DOMAIN objects'[y] = DOMAIN objects[y]
        /\ \A y \in live : objects'[y] # <<>> /\ Definition(Last(objects'[y])) = Definition(Current(y))
    BY <1>2, <1>3, <1>4, <2>2, <2>3, RewriteTypes
  <2>5. /\ DOMAIN file' = DOMAIN file
        /\ \A k \in DOMAIN file : file'[k] \in Job /\ Definition(file'[k]) = Definition(file[k])
    BY <2>2, <2>3, UpdateKeeps
  <2>6. /\ executions' \in Seq(Execution)
        /\ \A k \in DOMAIN executions' :
                executions'[k].object \in DOMAIN objects'[executions'[k].id]
        /\ counted' \in [Ids -> [begun : Nat, ended : Nat]]
    BY <2>3, <2>4, EndTypes
  <2>7. TypeInv'
    BY <1>5, <1>u, <2>4, <2>5, <2>6 DEF TypeInv, TypeOK
  <2> QED BY <1>5, <2>4, <2>5, <2>7 DEF DefinitionsSame
<1>8. CASE Fail(i)
  <2>1. PICK j : j = Failed(g)
    OBVIOUS
  <2>2. j \in Job /\ Definition(j) = Definition(g)
    BY <2>1, Outcomes
  <2>3. /\ objects' = Put(objects, id, n, j) /\ UNCHANGED <<file, counted>>
        /\ executions' = [executions EXCEPT ![i].phase = "failing"]
    BY <1>2, <1>3, <1>4, <1>8, <2>1 DEF Fail, Put
  <2>4. /\ objects' \in [Ids -> Seq(Job)]
        /\ \A y \in Ids : DOMAIN objects'[y] = DOMAIN objects[y]
        /\ \A y \in live : objects'[y] # <<>> /\ Definition(Last(objects'[y])) = Definition(Current(y))
    BY <1>2, <1>3, <1>4, <2>2, <2>3, RewriteTypes
  <2>5. /\ executions' \in Seq(Execution)
        /\ \A k \in DOMAIN executions' : /\ executions'[k].id = executions[k].id
                                         /\ executions'[k].object = executions[k].object
                                         /\ k \in DOMAIN executions
    BY <1>f, <2>3
  <2>6. \A k \in DOMAIN executions' : executions'[k].object \in DOMAIN objects'[executions'[k].id]
    BY <2>4, <2>5, ObjectTypes
  <2>7. TypeInv'
    BY <1>5, <1>u, <2>3, <2>4, <2>5, <2>6 DEF TypeInv, TypeOK
  <2> QED BY <1>5, <2>3, <2>4, <2>7 DEF DefinitionsSame
<1>9. CASE PersistFailure(i)
  <2>1. file' = UpdateState(id, g) /\ Ends(i) /\ UNCHANGED objects
    BY <1>2, <1>3, <1>4, <1>9 DEF PersistFailure, Persisted
  <2>2. /\ DOMAIN file' = DOMAIN file
        /\ \A k \in DOMAIN file : file'[k] \in Job /\ Definition(file'[k]) = Definition(file[k])
    BY <2>1, UpdateKeeps
  <2>3. /\ executions' \in Seq(Execution)
        /\ \A k \in DOMAIN executions' :
                executions'[k].object \in DOMAIN objects'[executions'[k].id]
        /\ counted' \in [Ids -> [begun : Nat, ended : Nat]]
    BY <2>1, EndTypes
  <2>4. TypeInv'
    BY <1>5, <1>u, <2>1, <2>2, <2>3 DEF TypeInv, TypeOK
  <2> QED BY <1>5, <2>1, <2>2, <2>4 DEF DefinitionsSame, Current
<1> QED BY <1>6, <1>7, <1>8, <1>9

LEMMA NewJobType ==
    ASSUME NEW trigger \in {"daily", "hourly", "none", "bad"}, NEW enabled \in BOOLEAN
    PROVE  /\ NewJob(trigger, enabled) \in Job /\ NewJob(trigger, enabled).total = 0
           /\ NewJob(trigger, enabled).trigger = trigger
           /\ NewJob(trigger, enabled).enabled = enabled
BY DEF NewJob, Job, Status

\* What _register_job leaves registered.
LEMMA RegisteredType ==
    ASSUME TypeInv, NEW id \in Ids, NEW trigger
    PROVE  /\ DOMAIN Registered(id, trigger) \subseteq Ids
           /\ \A i \in DOMAIN Registered(id, trigger) : Builds(Registered(id, trigger)[i])
<1>1. DOMAIN schedule \subseteq Ids /\ \A i \in DOMAIN schedule : Builds(schedule[i])
  BY DEF TypeInv, TypeOK
<1>2. CASE Builds(trigger)
  <2>1. Registered(id, trigger) = With(schedule, id, trigger)
    BY <1>2 DEF Registered
  <2> QED BY <1>1, <1>2, <2>1 DEF With
<1>3. CASE ~Builds(trigger)
  BY <1>1, <1>3 DEF Registered
<1> QED BY <1>2, <1>3

LEMMA EditType ==
    ASSUME TypeInv, Edit
    PROVE  used' \in [edits : 0..MaxEdits, executions : 0..MaxExecutions, starts : 0..MaxStarts]
<1>1. used \in [edits : 0..MaxEdits, executions : 0..MaxExecutions, starts : 0..MaxStarts]
  BY DEF TypeInv, TypeOK
<1>2. used.edits < MaxEdits /\ used' = [used EXCEPT !.edits = @ + 1]
  BY DEF Edit
<1> QED BY <1>1, <1>2, CronAssumption

LEMMA AddTypes ==
    ASSUME TypeInv, NEW id \in Ids, NEW trigger \in Triggers, NEW enabled \in BOOLEAN,
           AddJob(id, trigger, enabled)
    PROVE  TypeInv'
<1>1. PICK job : job = NewJob(trigger, enabled)
  OBVIOUS
<1>2. job \in Job
  BY <1>1, NewJobType, CronAssumption
<1>3. /\ Edit /\ UNCHANGED <<up, executions>>
      /\ live' = live \union {id}
      /\ objects' = [objects EXCEPT ![id] = Append(@, job)]
      /\ schedule' = IF enabled THEN Registered(id, trigger) ELSE schedule
      /\ file' = file \/ file' = With(file, id, job)
      /\ wanted' = With(wanted, id, Definition(job))
      /\ counted' = [counted EXCEPT ![id] = [begun |-> 0, ended |-> 0]]
      /\ mishaps' \subseteq mishaps \union {"raised", "replaced"}
  BY <1>1 DEF AddJob
<1>4. up /\ up'
  BY <1>3 DEF Edit
<1>5. /\ objects' \in [Ids -> Seq(Job)] /\ objects'[id] # <<>>
      /\ \A y \in Ids : DOMAIN objects[y] \subseteq DOMAIN objects'[y]
      /\ \A y \in Ids : y # id => objects'[y] = objects[y]
  <2>1. objects \in [Ids -> Seq(Job)] /\ objects[id] \in Seq(Job)
    BY DEF TypeInv, TypeOK
  <2>2. PICK q : q = Append(objects[id], job)
    OBVIOUS
  <2>3. q \in Seq(Job) /\ q # <<>> /\ DOMAIN objects[id] \subseteq DOMAIN q
    <3>1. q \in Seq(Job) /\ Len(q) = Len(objects[id]) + 1
      BY <1>2, <2>1, <2>2, AppendProperties
    <3>2. DOMAIN q = 1..Len(q) /\ DOMAIN objects[id] = 1..Len(objects[id]) /\ Len(objects[id]) \in Nat
      BY <2>1, <3>1
    <3> QED BY <3>1, <3>2, EmptySeq
  <2>4. objects' = [objects EXCEPT ![id] = q]
    BY <1>3, <2>2
  <2> QED BY <2>1, <2>3, <2>4
<1>6. live' \subseteq Ids /\ \A y \in live' : objects'[y] # <<>>
  BY <1>3, <1>5 DEF TypeInv, TypeOK
<1>7. DOMAIN file' \subseteq Ids /\ \A y \in DOMAIN file' : file'[y] \in Job
  <2>1. DOMAIN file \subseteq Ids /\ \A y \in DOMAIN file : file[y] \in Job
    BY DEF TypeInv, TypeOK
  <2>2. CASE file' = With(file, id, job)
    BY <1>2, <2>1, <2>2 DEF With
  <2> QED BY <1>3, <2>1, <2>2
<1>8. DOMAIN schedule' \subseteq Ids /\ \A y \in DOMAIN schedule' : Builds(schedule'[y])
  BY <1>3, RegisteredType DEF TypeInv, TypeOK
<1>9. \A k \in DOMAIN executions : executions[k].object \in DOMAIN objects'[executions[k].id]
  BY <1>5, ObjectTypes
<1>10. DOMAIN wanted' \subseteq Ids
  BY <1>3 DEF TypeInv, TypeOK, With
<1>11. counted' \in [Ids -> [begun : Nat, ended : Nat]]
  BY <1>3 DEF TypeInv, TypeOK
<1>12. used' \in [edits : 0..MaxEdits, executions : 0..MaxExecutions, starts : 0..MaxStarts]
  BY <1>3, EditType
<1> QED BY <1>3, <1>4, <1>5, <1>6, <1>7, <1>8, <1>9, <1>10, <1>11, <1>12 DEF TypeInv, TypeOK

LEMMA RemoveTypes ==
    ASSUME TypeInv, NEW id \in Ids, RemoveJob(id)
    PROVE  TypeInv'
<1>1. /\ Edit /\ UNCHANGED <<up, objects, executions, counted, mishaps>>
      /\ live' = live \ {id}
      /\ schedule' = Without(schedule, id)
      /\ file' = Without(file, id)
      /\ wanted' = Without(wanted, id)
  BY DEF RemoveJob, Unscheduled
<1>2. up
  BY <1>1 DEF Edit
<1>3. /\ DOMAIN file' \subseteq Ids /\ \A y \in DOMAIN file' : file'[y] \in Job
      /\ DOMAIN schedule' \subseteq Ids /\ \A y \in DOMAIN schedule' : Builds(schedule'[y])
      /\ DOMAIN wanted' \subseteq Ids
  BY <1>1 DEF TypeInv, TypeOK, Without
<1>4. used' \in [edits : 0..MaxEdits, executions : 0..MaxExecutions, starts : 0..MaxStarts]
  BY <1>1, EditType
<1> QED BY <1>1, <1>2, <1>3, <1>4 DEF TypeInv, TypeOK

\* enable_job and disable_job put job in the place of the current object.
Flags(id, job) ==
    /\ Edit
    /\ objects' = Put(objects, id, Len(objects[id]), job)
    /\ file' = file \/ file' = With(file, id, job)
    /\ schedule' = Without(schedule, id) \/ schedule' = Registered(id, job.trigger)
    /\ wanted' = With(wanted, id, Definition(job))
    /\ UNCHANGED <<up, live, executions, counted>>

LEMMA FlagTypes ==
    ASSUME TypeInv, NEW id \in live, NEW j \in Job, Flags(id, j),
           mishaps' \subseteq mishaps \union {"raised"}
    PROVE  /\ TypeInv'
           /\ Last(objects'[id]) = j
           /\ \A y \in Ids : y # id => objects'[y] = objects[y]
           /\ \A y \in Ids : Len(objects'[y]) = Len(objects[y])
<1>2. PICK n : n = Len(objects[id]) /\ n \in DOMAIN objects[id]
  BY ObjectTypes
<1>3. id \in Ids
  BY ObjectTypes
<1>1. /\ Edit
      /\ file' = file \/ file' = With(file, id, j)
      /\ schedule' = Without(schedule, id) \/ schedule' = Registered(id, j.trigger)
      /\ wanted' = With(wanted, id, Definition(j))
      /\ UNCHANGED <<up, live, executions, counted>>
  BY DEF Flags
<1>4. objects \in [Ids -> Seq(Job)] /\ objects' = Put(objects, id, n, j)
  BY <1>2 DEF TypeInv, TypeOK, Flags
<1>5. /\ objects' \in [Ids -> Seq(Job)]
      /\ \A y \in Ids : y # id => objects'[y] = objects[y]
      /\ Len(objects'[id]) = Len(objects[id]) /\ objects'[id][n] = j
  <2>1. \A p : p = Put(objects, id, n, j) =>
             /\ p \in [Ids -> Seq(Job)]
             /\ \A y \in Ids : y # id => p[y] = objects[y]
             /\ Len(p[id]) = Len(objects[id]) /\ p[id][n] = j
             /\ \A k \in DOMAIN objects[id] : k # n => p[id][k] = objects[id][k]
    <3>1. n \in DOMAIN objects[id] /\ id \in Ids /\ j \in Job /\ objects \in [Ids -> Seq(Job)]
      BY <1>2, <1>3, <1>4
    <3> QED BY <3>1, Rewritten
  <2> QED BY <1>4, <2>1
<1>6. Last(objects'[id]) = j
  <2>1. PICK q : q = objects'[id]
    OBVIOUS
  <2>2. Len(q) = n /\ q[n] = j
    BY <1>2, <1>5, <2>1
  <2>3. Last(q) = j
    BY <2>2 DEF Last
  <2> QED BY <2>1, <2>3
<1>7. ASSUME NEW y \in Ids
      PROVE  Len(objects'[y]) = Len(objects[y]) /\ DOMAIN objects'[y] = DOMAIN objects[y]
  <2>1. objects[y] \in Seq(Job) /\ objects'[y] \in Seq(Job)
    BY <1>4, <1>5
  <2>2. Len(objects'[y]) = Len(objects[y])
    BY <1>5
  <2> QED BY <2>1, <2>2
<1>8. live \subseteq Ids /\ \A y \in live : objects'[y] # <<>>
  <2>1. ASSUME NEW y \in live
        PROVE  objects'[y] # <<>>
    <3>1. y \in Ids /\ objects[y] # <<>> /\ objects[y] \in Seq(Job) /\ objects'[y] \in Seq(Job)
      BY <1>5, ObjectTypes DEF TypeInv, TypeOK
    <3> QED BY <1>7, <3>1, EmptySeq
  <2> QED BY <2>1 DEF TypeInv, TypeOK
<1>9. DOMAIN file' \subseteq Ids /\ \A y \in DOMAIN file' : file'[y] \in Job
  <2>1. DOMAIN file \subseteq Ids /\ \A y \in DOMAIN file : file[y] \in Job
    BY DEF TypeInv, TypeOK
  <2>2. CASE file' = With(file, id, j)
    BY <1>3, <2>1, <2>2 DEF With
  <2> QED BY <1>1, <2>1, <2>2
<1>10. DOMAIN schedule' \subseteq Ids /\ \A y \in DOMAIN schedule' : Builds(schedule'[y])
  <2>1. DOMAIN schedule \subseteq Ids /\ \A y \in DOMAIN schedule : Builds(schedule[y])
    BY DEF TypeInv, TypeOK
  <2>2. CASE schedule' = Without(schedule, id)
    BY <2>1, <2>2 DEF Without
  <2>3. CASE schedule' = Registered(id, j.trigger)
    BY <1>3, <2>3, RegisteredType
  <2> QED BY <1>1, <2>2, <2>3
<1>11. \A k \in DOMAIN executions : executions[k].object \in DOMAIN objects'[executions[k].id]
  BY <1>7, ObjectTypes
<1>12. used' \in [edits : 0..MaxEdits, executions : 0..MaxExecutions, starts : 0..MaxStarts]
  BY <1>1, EditType
<1>13. up /\ up'
  BY <1>1 DEF Edit
<1>14. TypeInv'
  <2>1. DOMAIN wanted' \subseteq Ids
    BY <1>1, <1>3 DEF TypeInv, TypeOK, With
  <2> QED BY <1>1, <1>5, <1>8, <1>9, <1>10, <1>11, <1>12, <1>13, <2>1 DEF TypeInv, TypeOK
<1> QED BY <1>5, <1>6, <1>7, <1>14

LEMMA EnableFlags ==
    ASSUME TypeInv, NEW id \in Ids, EnableJob(id)
    PROVE  \E j \in Job :
             /\ id \in live /\ Flags(id, j) /\ j.enabled = TRUE
             /\ j.trigger = Current(id).trigger /\ j.total = Current(id).total
             /\ schedule' = Registered(id, j.trigger)
             /\ \/ Raises(j.trigger) /\ file' = file /\ mishaps' = mishaps \union {"raised"}
                \/ file' = With(file, id, j) /\ mishaps' = mishaps
<1>1. PICK j : j = [Current(id) EXCEPT !.enabled = TRUE]
  OBVIOUS
<1>2. id \in live
  BY DEF EnableJob
<1>3. j \in Job /\ j.enabled = TRUE /\ j.trigger = Current(id).trigger /\ j.total = Current(id).total
  <2>1. PICK g \in Job : g = Current(id)
    BY <1>2, ObjectTypes
  <2> QED BY <1>1, <2>1 DEF Job
<1>4. /\ Edit /\ schedule' = Registered(id, j.trigger)
      /\ objects' = Put(objects, id, Len(objects[id]), j)
      /\ file' = IF Raises(j.trigger) THEN file ELSE With(file, id, j)
      /\ mishaps' = IF Raises(j.trigger) THEN mishaps \union {"raised"} ELSE mishaps
      /\ wanted' = With(wanted, id, Definition(j))
      /\ UNCHANGED <<up, live, executions, counted>>
  BY <1>1 DEF EnableJob, Put
<1> QED BY <1>2, <1>3, <1>4 DEF Flags

LEMMA DisableFlags ==
    ASSUME TypeInv, NEW id \in Ids, DisableJob(id)
    PROVE  \E j \in Job :
             /\ id \in live /\ Flags(id, j) /\ j.enabled = FALSE /\ j.total = Current(id).total
             /\ schedule' = Without(schedule, id)
             /\ file' = With(file, id, j) /\ mishaps' = mishaps
<1>1. PICK j : j = [Current(id) EXCEPT !.enabled = FALSE]
  OBVIOUS
<1>2. id \in live
  BY DEF DisableJob
<1>3. j \in Job /\ j.enabled = FALSE /\ j.total = Current(id).total
  <2>1. PICK g \in Job : g = Current(id)
    BY <1>2, ObjectTypes
  <2> QED BY <1>1, <2>1 DEF Job
<1>4. /\ Edit /\ schedule' = Without(schedule, id)
      /\ objects' = Put(objects, id, Len(objects[id]), j)
      /\ file' = With(file, id, j)
      /\ wanted' = With(wanted, id, Definition(j))
      /\ UNCHANGED <<up, live, executions, counted, mishaps>>
  BY <1>1 DEF DisableJob, Put, Unscheduled
<1> QED BY <1>2, <1>3, <1>4 DEF Flags

\* What start() loads.
LEMMA MergedType ==
    ASSUME TypeInv
    PROVE  /\ DOMAIN Merged = DOMAIN file \union Defaults /\ DOMAIN Merged \subseteq Ids
           /\ \A id \in DOMAIN Merged : Merged[id] \in Job
           /\ \A id \in DOMAIN file : Merged[id] = file[id]
           /\ \A id \in DOMAIN Merged : id \notin DOMAIN file => Merged[id].total = 0
<1>1. DOMAIN file \subseteq Ids /\ \A y \in DOMAIN file : file[y] \in Job
  BY DEF TypeInv, TypeOK
<1>2. NewJob("daily", TRUE) \in Job /\ NewJob("daily", TRUE).total = 0
  BY NewJobType
<1> QED BY <1>1, <1>2, CronAssumption DEF Merged

\* After start() each job has one object, the job that was loaded.
LEMMA StartTypes ==
    ASSUME TypeInv, Start
    PROVE  /\ TypeInv'
           /\ up' => /\ live' = DOMAIN file'
                     /\ \A id \in live' : /\ Last(objects'[id]) = file'[id]
                                          /\ Len(objects'[id]) = 1
           /\ executions = <<>> /\ executions' = <<>>
<1>1. PICK m : m = Merged
  OBVIOUS
<1>2. /\ DOMAIN m = DOMAIN file \union Defaults /\ DOMAIN m \subseteq Ids
      /\ \A id \in DOMAIN m : m[id] \in Job
  BY <1>1, MergedType
<1>3. /\ ~up /\ file' = m /\ UNCHANGED <<executions, mishaps>> /\ DOMAIN wanted' = DOMAIN m
      /\ counted' = [id \in Ids |-> IF id \in DOMAIN file THEN counted[id]
                                    ELSE [begun |-> 0, ended |-> 0]]
      /\ used' = [used EXCEPT !.starts = @ + 1] /\ used.starts < MaxStarts
      /\ \/ UNCHANGED <<up, live, objects, schedule>>
         \/ /\ up' = TRUE /\ live' = DOMAIN m
            /\ objects' = [id \in Ids |-> IF id \in DOMAIN m THEN <<m[id]>> ELSE <<>>]
            /\ schedule' = [id \in {i \in DOMAIN m : m[i].enabled /\ Builds(m[i].trigger)}
                               |-> m[id].trigger]
  BY <1>1 DEF Start
<1>4. executions = <<>> /\ executions' = <<>> /\ live = {}
  BY <1>3 DEF TypeInv
<1>5. counted' \in [Ids -> [begun : Nat, ended : Nat]]
  BY <1>3 DEF TypeInv, TypeOK
<1>6. used' \in [edits : 0..MaxEdits, executions : 0..MaxExecutions, starts : 0..MaxStarts]
  <2>1. used \in [edits : 0..MaxEdits, executions : 0..MaxExecutions, starts : 0..MaxStarts]
    BY DEF TypeInv, TypeOK
  <2> QED BY <1>3, <2>1, CronAssumption
<1>7. executions' \in Seq(Execution) /\ mishaps' \subseteq {"torn", "raised", "replaced"}
  BY <1>3 DEF TypeInv, TypeOK
<1>8. CASE UNCHANGED <<up, live, objects, schedule>>
  <2>1. TypeInv'
    BY <1>2, <1>3, <1>4, <1>5, <1>6, <1>7, <1>8 DEF TypeInv, TypeOK
  <2> QED BY <1>3, <1>4, <1>8, <2>1
<1>9. CASE /\ up' = TRUE /\ live' = DOMAIN m
           /\ objects' = [id \in Ids |-> IF id \in DOMAIN m THEN <<m[id]>> ELSE <<>>]
           /\ schedule' = [id \in {i \in DOMAIN m : m[i].enabled /\ Builds(m[i].trigger)}
                              |-> m[id].trigger]
  <2>1. ASSUME NEW id \in Ids
        PROVE  objects'[id] \in Seq(Job) /\ (id \in DOMAIN m => objects'[id] = <<m[id]>>)
    BY <1>2, <1>9
  <2>2. objects' \in [Ids -> Seq(Job)]
    BY <1>9, <2>1
  <2>3. ASSUME NEW id \in DOMAIN m
        PROVE  objects'[id] # <<>> /\ Last(objects'[id]) = m[id] /\ Len(objects'[id]) = 1
    <3>1. PICK q : q = objects'[id]
      OBVIOUS
    <3>2. q = <<m[id]>>
      BY <1>2, <2>1, <3>1
    <3>3. Len(q) = 1 /\ q[1] = m[id] /\ q # <<>>
      BY <3>2
    <3> QED BY <3>1, <3>3 DEF Last
  <2>4. DOMAIN schedule' \subseteq Ids /\ \A id \in DOMAIN schedule' : Builds(schedule'[id])
    BY <1>2, <1>9
  <2>5. TypeInv'
    BY <1>2, <1>3, <1>4, <1>5, <1>6, <1>7, <1>9, <2>2, <2>3, <2>4 DEF TypeInv, TypeOK
  <2> QED BY <1>3, <1>4, <1>9, <2>3, <2>5
<1> QED BY <1>3, <1>8, <1>9

LEMMA DiesTypes ==
    ASSUME TypeInv, Stop \/ Crash
    PROVE  TypeInv' /\ ~up' /\ live' = {}
<1>1. /\ up' = FALSE /\ live' = {} /\ objects' = [id \in Ids |-> <<>>]
      /\ schedule' = Empty /\ executions' = <<>>
      /\ UNCHANGED <<wanted, counted, used>> /\ mishaps' \subseteq mishaps \union {"torn"}
      /\ file' = file \/ file' = Empty \/ file' = [id \in live |-> Current(id)]
  BY DEF Stop, Crash, Dies
<1>2. DOMAIN Empty = {}
  BY DEF Empty
<1>3. <<>> \in Seq(Job) /\ <<>> \in Seq(Execution) /\ DOMAIN executions' = {}
  BY <1>1
<1>4. DOMAIN file' \subseteq Ids /\ \A y \in DOMAIN file' : file'[y] \in Job
  <2>1. CASE file' = file
    BY <2>1 DEF TypeInv, TypeOK
  <2>2. CASE file' = Empty
    BY <1>2, <2>2
  <2>3. CASE file' = [id \in live |-> Current(id)]
    BY <2>3, ObjectTypes
  <2> QED BY <1>1, <2>1, <2>2, <2>3
<1>5. objects' \in [Ids -> Seq(Job)]
  BY <1>1, <1>3
<1> QED BY <1>1, <1>2, <1>3, <1>4, <1>5 DEF TypeInv, TypeOK

LEMMA StutterTypes ==
    ASSUME TypeInv, UNCHANGED vars
    PROVE  TypeInv'
BY DEF TypeInv, TypeOK, vars

LEMMA InitTypes == Init => TypeInv
<1> SUFFICES ASSUME Init PROVE TypeInv
  OBVIOUS
<1>1. DOMAIN Empty = {}
  BY DEF Empty
<1>2. DOMAIN file \subseteq Ids /\ \A y \in DOMAIN file : file[y] \in Job
  <2>1. CASE file = Empty
    BY <1>1, <2>1
  <2>2. CASE file = [id \in Ids |-> NewJob("daily", id \notin Defaults)]
    BY <2>2, NewJobType
  <2> QED BY <2>1, <2>2 DEF Init
<1>3. objects \in [Ids -> Seq(Job)] /\ executions \in Seq(Execution) /\ DOMAIN executions = {}
  BY DEF Init
<1>4. /\ used \in [edits : 0..MaxEdits, executions : 0..MaxExecutions, starts : 0..MaxStarts]
      /\ counted \in [Ids -> [begun : Nat, ended : Nat]] /\ DOMAIN wanted = DOMAIN file
  BY CronAssumption DEF Init
<1> QED BY <1>1, <1>2, <1>3, <1>4 DEF Init, TypeInv, TypeOK

\* The kinds of steps.
LEMMA NextKinds ==
    Next => Start \/ Stop \/ Crash \/ Edits \/ Executes \/ Proceeds
BY DEF Next, Edits, Executes, Proceeds

LEMMA StepTypes == TypeInv /\ [Next]_vars => TypeInv'
<1> SUFFICES ASSUME TypeInv, [Next]_vars PROVE TypeInv'
  OBVIOUS
<1>1. CASE Start
  BY <1>1, StartTypes
<1>2. CASE Stop \/ Crash
  BY <1>2, DiesTypes
<1>3. CASE Edits
  <2>1. PICK id \in Ids : \/ \E trigger \in Triggers, enabled \in BOOLEAN : AddJob(id, trigger, enabled)
                          \/ RemoveJob(id) \/ EnableJob(id) \/ DisableJob(id)
    BY <1>3 DEF Edits
  <2>2. CASE \E trigger \in Triggers, enabled \in BOOLEAN : AddJob(id, trigger, enabled)
    BY <2>2, AddTypes
  <2>3. CASE RemoveJob(id)
    BY <2>3, RemoveTypes
  <2>4. CASE EnableJob(id)
    <3>1. PICK j \in Job : id \in live /\ Flags(id, j) /\ mishaps' \subseteq mishaps \union {"raised"}
      BY <2>4, EnableFlags
    <3> QED BY <3>1, FlagTypes
  <2>5. CASE DisableJob(id)
    <3>1. PICK j \in Job : id \in live /\ Flags(id, j) /\ mishaps' \subseteq mishaps \union {"raised"}
      BY <2>5, DisableFlags
    <3> QED BY <3>1, FlagTypes
  <2> QED BY <2>1, <2>2, <2>3, <2>4, <2>5
<1>4. CASE Executes
  BY <1>4, ExecuteKeeps DEF Executes
<1>5. CASE Proceeds
  BY <1>5, ProceedKeeps
<1>6. CASE UNCHANGED vars
  BY <1>6, StutterTypes
<1> QED BY <1>1, <1>2, <1>3, <1>4, <1>5, <1>6, NextKinds

(* CronTypes: whatever the order of edits, executions and restarts, every   *)
(* execution works on an object that this process made, every job that      *)
(* _jobs has has one, and only triggers that could be built are registered. *)
THEOREM CronTypes == Spec => []TypeOK
<1>1. TypeInv => TypeOK
  BY DEF TypeInv
<1> QED BY <1>1, InitTypes, StepTypes, PTL DEF Spec
-----------------------------------------------------------------------------
(* What clients gave is kept, and an enabled job is scheduled.             *)

Intact == mishaps \intersect {"torn", "raised"} = {}

\* The object that a job gets, and the objects of the others.
LEMMA AddObjects ==
    ASSUME TypeInv, NEW id \in Ids, NEW trigger \in Triggers, NEW enabled \in BOOLEAN,
           AddJob(id, trigger, enabled)
    PROVE  /\ Last(objects'[id]) = NewJob(trigger, enabled)
           /\ Len(objects'[id]) = Len(objects[id]) + 1
           /\ \A y \in Ids : y # id => objects'[y] = objects[y]
<1>1. PICK job : job = NewJob(trigger, enabled)
  OBVIOUS
<1>2. job \in Job
  BY <1>1, NewJobType, CronAssumption
<1>3. objects \in [Ids -> Seq(Job)] /\ objects' = [objects EXCEPT ![id] = Append(@, job)]
  BY <1>1 DEF AddJob, TypeInv, TypeOK
<1>4. PICK q : q = Append(objects[id], job)
  OBVIOUS
<1>5. Len(q) = Len(objects[id]) + 1 /\ q[Len(q)] = job
  <2>1. objects[id] \in Seq(Job)
    BY <1>3
  <2>2. Len(q) = Len(objects[id]) + 1 /\ q[Len(objects[id]) + 1] = job
    BY <1>2, <1>4, <2>1, AppendProperties
  <2> QED BY <2>2
<1>6. Last(q) = job
  BY <1>5 DEF Last
<1>7. objects'[id] = q /\ \A y \in Ids : y # id => objects'[y] = objects[y]
  BY <1>3, <1>4
<1> QED BY <1>1, <1>5, <1>6, <1>7

LEMMA KeptStep == TypeInv /\ Kept /\ [Next]_vars => Kept'
<1> SUFFICES ASSUME TypeInv, Kept, [Next]_vars, Intact'
             PROVE  /\ Persists'
                    /\ up' => /\ live' = DOMAIN wanted'
                              /\ \A id \in live' : Definition(Last(objects'[id])) = wanted'[id]
  BY DEF Kept, Intact, Current
<1>k. Intact => /\ [id \in DOMAIN file |-> Definition(file[id])] = wanted
                /\ up => /\ live = DOMAIN wanted
                         /\ \A id \in live : Definition(Current(id)) = wanted[id]
  BY DEF Kept, Intact, Persists
<1>p. Persists' <=> [id \in DOMAIN file' |-> Definition(file'[id])] = wanted'
  BY DEF Persists, Definition
<1>1. CASE Start
  <2>1. PICK m : m = Merged
    OBVIOUS
  <2>2. /\ DOMAIN m = DOMAIN file \union Defaults /\ \A id \in DOMAIN file : m[id] = file[id]
    BY <2>1, MergedType
  <2>3. /\ UNCHANGED mishaps /\ file' = m
        /\ wanted' = [id \in DOMAIN m |-> IF id \in DOMAIN wanted THEN wanted[id]
                                          ELSE Definition(m[id])]
    BY <1>1, <2>1 DEF Start
  <2>4. [id \in DOMAIN file |-> Definition(file[id])] = wanted
    BY <1>k, <2>3 DEF Intact
  <2>5. DOMAIN wanted = DOMAIN file /\ \A id \in DOMAIN file : wanted[id] = Definition(file[id])
    BY <2>4
  <2>6. \A id \in DOMAIN m : wanted'[id] = Definition(m[id])
    BY <2>2, <2>3, <2>5
  <2>7. Persists'
    BY <1>p, <2>3, <2>6
  <2>8. up' => live' = DOMAIN file' /\ \A id \in live' : Last(objects'[id]) = file'[id]
    BY <1>1, StartTypes
  <2>9. DOMAIN wanted' = DOMAIN m
    BY <2>3
  <2> QED BY <2>3, <2>6, <2>7, <2>8, <2>9
<1>2. CASE Stop
  <2>1. file' = [id \in live |-> Current(id)] /\ UNCHANGED <<wanted, mishaps>> /\ up /\ ~up'
    BY <1>2 DEF Stop, Dies
  <2>2. /\ live = DOMAIN wanted /\ \A id \in live : Definition(Current(id)) = wanted[id]
        /\ wanted = [id \in DOMAIN wanted |-> wanted[id]]
    BY <1>k, <2>1 DEF Intact
  <2>3. DOMAIN file' = live /\ \A id \in live : file'[id] = Current(id)
    BY <2>1
  <2>4. [id \in DOMAIN file' |-> Definition(file'[id])] = [id \in DOMAIN wanted |-> wanted[id]]
    BY <2>2, <2>3
  <2> QED BY <1>p, <2>1, <2>2, <2>4
<1>3. CASE Crash
  <2>1. /\ ~up' /\ UNCHANGED wanted
        /\ UNCHANGED <<file, mishaps>> \/ "torn" \in mishaps'
    BY <1>3 DEF Crash, Dies
  <2>2. UNCHANGED <<file, mishaps>>
    BY <2>1 DEF Intact
  <2> QED BY <1>k, <1>p, <2>1, <2>2 DEF Intact
<1>4. CASE Edits
  <2> PICK id \in Ids : \/ \E trigger \in Triggers, enabled \in BOOLEAN : AddJob(id, trigger, enabled)
                        \/ RemoveJob(id) \/ EnableJob(id) \/ DisableJob(id)
    BY <1>4 DEF Edits
  <2>1. ASSUME NEW job, file' = With(file, id, job), wanted' = With(wanted, id, Definition(job)),
               Last(objects'[id]) = job, \A y \in Ids : y # id => objects'[y] = objects[y],
               live' = live \union {id}, mishaps \subseteq mishaps', up
        PROVE  /\ Persists'
               /\ up' => /\ live' = DOMAIN wanted'
                         /\ \A y \in live' : Definition(Last(objects'[y])) = wanted'[y]
    <3>1. /\ [y \in DOMAIN file |-> Definition(file[y])] = wanted
          /\ live = DOMAIN wanted
          /\ \A y \in live : Definition(Current(y)) = wanted[y]
      BY <1>k, <2>1 DEF Intact
    <3>2. DOMAIN wanted = DOMAIN file /\ \A y \in DOMAIN file : wanted[y] = Definition(file[y])
      BY <3>1
    <3>3. /\ DOMAIN file' = DOMAIN file \union {id}
          /\ \A y \in DOMAIN file' : file'[y] = IF y = id THEN job ELSE file[y]
      BY <2>1 DEF With
    <3>4. wanted' = [y \in DOMAIN wanted \union {id} |-> IF y = id THEN Definition(job) ELSE wanted[y]]
      BY <2>1 DEF With
    <3>5. \A y \in DOMAIN file' : Definition(file'[y]) = wanted'[y]
      BY <3>2, <3>3, <3>4
    <3>6. Persists'
      BY <1>p, <3>2, <3>3, <3>4, <3>5
    <3>7. live' = DOMAIN wanted'
      BY <2>1, <3>1, <3>4
    <3>8. ASSUME NEW y \in live'
          PROVE  Definition(Last(objects'[y])) = wanted'[y]
      <4>1. CASE y = id
        BY <2>1, <3>4, <4>1
      <4>2. CASE y # id
        <5>1. y \in live /\ y \in Ids /\ wanted'[y] = wanted[y]
          BY <2>1, <3>1, <3>4, <4>2, ObjectTypes
        <5>2. Last(objects'[y]) = Current(y)
          BY <2>1, <4>2, <5>1 DEF Current
        <5> QED BY <3>1, <5>1, <5>2
      <4> QED BY <4>1, <4>2
    <3> QED BY <3>6, <3>7, <3>8
  <2>2. CASE \E trigger \in Triggers, enabled \in BOOLEAN : AddJob(id, trigger, enabled)
    <3>1. PICK trigger \in Triggers, enabled \in BOOLEAN : AddJob(id, trigger, enabled)
      BY <2>2
    <3>2. PICK job : job = NewJob(trigger, enabled)
      OBVIOUS
    <3>3. /\ Last(objects'[id]) = job
          /\ \A y \in Ids : y # id => objects'[y] = objects[y]
      BY <3>1, <3>2, AddObjects
    <3>4. /\ live' = live \union {id} /\ up /\ mishaps \subseteq mishaps'
          /\ wanted' = With(wanted, id, Definition(job))
          /\ file' = With(file, id, job) \/ "raised" \in mishaps'
      BY <3>1, <3>2 DEF AddJob, Edit
    <3>5. file' = With(file, id, job)
      BY <3>4 DEF Intact
    <3> QED BY <2>1, <3>3, <3>4, <3>5
  <2>3. CASE RemoveJob(id)
    <3>1. /\ UNCHANGED <<up, objects, mishaps>> /\ up
          /\ live' = live \ {id}
          /\ file' = Without(file, id)
          /\ wanted' = Without(wanted, id)
      BY <2>3 DEF RemoveJob, Edit
    <3>2. /\ [y \in DOMAIN file |-> Definition(file[y])] = wanted
          /\ live = DOMAIN wanted
          /\ \A y \in live : Definition(Current(y)) = wanted[y]
      BY <1>k, <3>1 DEF Intact
    <3>3. DOMAIN wanted = DOMAIN file /\ \A y \in DOMAIN file : wanted[y] = Definition(file[y])
      BY <3>2
    <3>4. /\ DOMAIN file' = DOMAIN file \ {id} /\ \A y \in DOMAIN file' : file'[y] = file[y]
      BY <3>1 DEF Without
    <3>5. wanted' = [y \in DOMAIN wanted \ {id} |-> wanted[y]]
      BY <3>1 DEF Without
    <3>6. Persists'
      BY <1>p, <3>3, <3>4, <3>5
    <3> QED BY <3>1, <3>2, <3>5, <3>6 DEF Current
  <2>4. CASE EnableJob(id)
    <3>1. PICK j \in Job :
             /\ id \in live /\ Flags(id, j)
             /\ \/ "raised" \in mishaps' /\ mishaps' = mishaps \union {"raised"}
                \/ file' = With(file, id, j) /\ mishaps' = mishaps
      BY <2>4, EnableFlags
    <3>2. /\ Last(objects'[id]) = j
          /\ \A y \in Ids : y # id => objects'[y] = objects[y]
      BY <3>1, FlagTypes
    <3>3. /\ up /\ live' = live /\ wanted' = With(wanted, id, Definition(j))
      BY <3>1 DEF Flags, Edit
    <3>4. file' = With(file, id, j) /\ mishaps' = mishaps
      BY <3>1 DEF Intact
    <3>5. live' = live \union {id}
      BY <3>1, <3>3
    <3> QED BY <2>1, <3>2, <3>3, <3>4, <3>5
  <2>5. CASE DisableJob(id)
    <3>1. PICK j \in Job :
             /\ id \in live /\ Flags(id, j)
             /\ file' = With(file, id, j) /\ mishaps' = mishaps
      BY <2>5, DisableFlags
    <3>2. /\ Last(objects'[id]) = j
          /\ \A y \in Ids : y # id => objects'[y] = objects[y]
      BY <3>1, FlagTypes
    <3>3. /\ up /\ live' = live /\ wanted' = With(wanted, id, Definition(j))
      BY <3>1 DEF Flags, Edit
    <3>5. live' = live \union {id}
      BY <3>1, <3>3
    <3> QED BY <2>1, <3>1, <3>2, <3>3, <3>5
  <2> QED BY <2>2, <2>3, <2>4, <2>5
<1>5. CASE Executes \/ Proceeds
  <2>1. /\ UNCHANGED <<up, live, wanted, mishaps>> /\ DOMAIN file' = DOMAIN file
        /\ \A id \in DOMAIN file : Definition(file'[id]) = Definition(file[id])
        /\ \A id \in live : Definition(Last(objects'[id])) = Definition(Current(id))
    BY <1>5, ExecuteKeeps, ProceedKeeps DEF Executes, DefinitionsSame
  <2>2. [id \in DOMAIN file' |-> Definition(file'[id])] = [id \in DOMAIN file |-> Definition(file[id])]
    BY <2>1
  <2> QED BY <1>k, <1>p, <2>1, <2>2 DEF Intact
<1>6. CASE UNCHANGED vars
  BY <1>k, <1>p, <1>6 DEF vars, Intact, Current
<1> QED BY <1>1, <1>2, <1>3, <1>4, <1>5, <1>6, NextKinds

\* _register_job registers the id, or nothing, and leaves the others alone.
LEMMA RegisteredOthers ==
    ASSUME NEW id, NEW trigger
    PROVE  /\ DOMAIN schedule \subseteq DOMAIN Registered(id, trigger)
           /\ DOMAIN Registered(id, trigger) \subseteq DOMAIN schedule \union {id}
           /\ \A y \in DOMAIN schedule : y # id => Registered(id, trigger)[y] = schedule[y]
           /\ Builds(trigger) => /\ id \in DOMAIN Registered(id, trigger)
                                 /\ Registered(id, trigger)[id] = trigger
BY DEF Registered, With

LEMMA EnabledStep == TypeInv /\ EnabledIsScheduled /\ [Next]_vars => EnabledIsScheduled'
<1> SUFFICES ASSUME TypeInv, EnabledIsScheduled, [Next]_vars, up'
             PROVE  /\ DOMAIN schedule' \subseteq live'
                    /\ \A id \in live' : Last(objects'[id]).enabled /\ Builds(Last(objects'[id]).trigger) =>
                          id \in DOMAIN schedule' /\ schedule'[id] = Last(objects'[id]).trigger
  BY DEF EnabledIsScheduled, Current, Builds
<1>s. up => /\ DOMAIN schedule \subseteq live
            /\ \A id \in live : Current(id).enabled /\ Builds(Current(id).trigger) =>
                 id \in DOMAIN schedule /\ schedule[id] = Current(id).trigger
  BY DEF EnabledIsScheduled
<1>1. CASE Start
  <2>1. PICK m : m = Merged
    OBVIOUS
  <2>2. /\ ~up /\ file' = m
        /\ \/ up' = up
           \/ schedule' = [id \in {i \in DOMAIN m : m[i].enabled /\ Builds(m[i].trigger)} |-> m[id].trigger]
    BY <1>1, <2>1 DEF Start
  <2>3. live' = DOMAIN file' /\ \A id \in live' : Last(objects'[id]) = file'[id]
    BY <1>1, StartTypes
  <2> QED BY <2>2, <2>3
<1>2. CASE Stop \/ Crash
  BY <1>2, DiesTypes
<1>3. CASE Edits
  <2> PICK id \in Ids : \/ \E trigger \in Triggers, enabled \in BOOLEAN : AddJob(id, trigger, enabled)
                        \/ RemoveJob(id) \/ EnableJob(id) \/ DisableJob(id)
    BY <1>3 DEF Edits
  <2>0. /\ up /\ DOMAIN schedule \subseteq live
        /\ \A y \in live : Current(y).enabled /\ Builds(Current(y).trigger) =>
                 y \in DOMAIN schedule /\ schedule[y] = Current(y).trigger
    BY <1>s DEF AddJob, RemoveJob, EnableJob, DisableJob, Edit
  <2>1. ASSUME NEW job, Last(objects'[id]) = job, \A y \in Ids : y # id => objects'[y] = objects[y],
               live' = live \union {id},
               \/ schedule' = Registered(id, job.trigger)
               \/ ~job.enabled /\ (schedule' = schedule \/ schedule' = Without(schedule, id))
        PROVE  /\ DOMAIN schedule' \subseteq live'
               /\ \A y \in live' : Last(objects'[y]).enabled /\ Builds(Last(objects'[y]).trigger) =>
                     y \in DOMAIN schedule' /\ schedule'[y] = Last(objects'[y]).trigger
    <3>1. /\ DOMAIN schedule' \subseteq DOMAIN schedule \union {id}
          /\ \A y \in DOMAIN schedule : y # id => y \in DOMAIN schedule' /\ schedule'[y] = schedule[y]
      <4>1. CASE schedule' = Registered(id, job.trigger)
        BY <4>1, RegisteredOthers
      <4>2. CASE schedule' = Without(schedule, id)
        BY <4>2 DEF Without
      <4> QED BY <2>1, <4>1, <4>2
    <3>2. job.enabled /\ Builds(job.trigger) => id \in DOMAIN schedule' /\ schedule'[id] = job.trigger
      BY <2>1, RegisteredOthers
    <3>3. ASSUME NEW y \in live', Last(objects'[y]).enabled, Builds(Last(objects'[y]).trigger)
          PROVE  y \in DOMAIN schedule' /\ schedule'[y] = Last(objects'[y]).trigger
      <4>1. CASE y = id
        BY <2>1, <3>2, <3>3, <4>1
      <4>2. CASE y # id
        <5>1. y \in live /\ y \in Ids
          BY <2>1, <4>2, ObjectTypes
        <5>2. Last(objects'[y]) = Current(y)
          BY <2>1, <4>2, <5>1 DEF Current
        <5>3. y \in DOMAIN schedule /\ schedule[y] = Current(y).trigger
          BY <2>0, <3>3, <5>1, <5>2
        <5> QED BY <3>1, <4>2, <5>2, <5>3
      <4> QED BY <4>1, <4>2
    <3>4. DOMAIN schedule' \subseteq live'
      BY <2>0, <2>1, <3>1
    <3> QED BY <3>3, <3>4
  <2>2. CASE \E trigger \in Triggers, enabled \in BOOLEAN : AddJob(id, trigger, enabled)
    <3>1. PICK trigger \in Triggers, enabled \in BOOLEAN : AddJob(id, trigger, enabled)
      BY <2>2
    <3>2. PICK job : job = NewJob(trigger, enabled)
      OBVIOUS
    <3>3. /\ Last(objects'[id]) = job
          /\ \A y \in Ids : y # id => objects'[y] = objects[y]
      BY <3>1, <3>2, AddObjects
    <3>4. job.trigger = trigger /\ job.enabled = enabled
      BY <3>2 DEF NewJob
    <3>5. /\ live' = live \union {id}
          /\ schedule' = IF enabled THEN Registered(id, trigger) ELSE schedule
      BY <3>1 DEF AddJob
    <3>6. \/ schedule' = Registered(id, job.trigger)
          \/ ~job.enabled /\ (schedule' = schedule \/ schedule' = Without(schedule, id))
      BY <3>4, <3>5
    <3> QED BY <2>1, <3>3, <3>5, <3>6
  <2>3. CASE RemoveJob(id)
    <3>1. UNCHANGED objects /\ live' = live \ {id} /\ schedule' = Without(schedule, id)
      BY <2>3 DEF RemoveJob, Unscheduled
    <3>2. DOMAIN schedule' = DOMAIN schedule \ {id} /\ \A y \in DOMAIN schedule' : schedule'[y] = schedule[y]
      BY <3>1 DEF Without
    <3> QED BY <2>0, <3>1, <3>2 DEF Current
  <2>4. CASE EnableJob(id)
    <3>1. PICK j \in Job : id \in live /\ Flags(id, j) /\ mishaps' \subseteq mishaps \union {"raised"}
                           /\ schedule' = Registered(id, j.trigger)
      BY <2>4, EnableFlags
    <3>2. /\ Last(objects'[id]) = j
          /\ \A y \in Ids : y # id => objects'[y] = objects[y]
      BY <3>1, FlagTypes
    <3>3. live' = live \union {id}
      BY <3>1 DEF Flags
    <3> QED BY <2>1, <3>1, <3>2, <3>3
  <2>5. CASE DisableJob(id)
    <3>1. PICK j \in Job : id \in live /\ Flags(id, j) /\ mishaps' \subseteq mishaps \union {"raised"}
                           /\ schedule' = Without(schedule, id) /\ j.enabled = FALSE
      BY <2>5, DisableFlags
    <3>2. /\ Last(objects'[id]) = j
          /\ \A y \in Ids : y # id => objects'[y] = objects[y]
      BY <3>1, FlagTypes
    <3>3. live' = live \union {id}
      BY <3>1 DEF Flags
    <3> QED BY <2>1, <3>1, <3>2, <3>3
  <2> QED BY <2>2, <2>3, <2>4, <2>5
<1>4. CASE Executes \/ Proceeds
  <2>1. /\ UNCHANGED <<up, live, schedule>>
        /\ \A id \in live : Definition(Last(objects'[id])) = Definition(Current(id))
    BY <1>4, ExecuteKeeps, ProceedKeeps DEF Executes, DefinitionsSame
  <2>2. \A id \in live : /\ Last(objects'[id]).enabled = Current(id).enabled
                         /\ Last(objects'[id]).trigger = Current(id).trigger
    BY <2>1 DEF Definition
  <2> QED BY <1>s, <2>1, <2>2
<1>5. CASE UNCHANGED vars
  BY <1>s, <1>5 DEF vars, Current
<1> QED BY <1>1, <1>2, <1>3, <1>4, <1>5, NextKinds

LEMMA InitKept == Init => Kept /\ EnabledIsScheduled
BY DEF Init, Kept, Persists, EnabledIsScheduled

(* DefinitionsAreKept: unless a write was torn or a trigger raised, no order *)
(* of edits, executions that end late, stops, crashes and starts makes       *)
(* jobs.json or _jobs differ from what clients and defaults gave last.       *)
THEOREM DefinitionsAreKept == Spec => []DefinitionsKept
<1>1. Kept => DefinitionsKept
  BY DEF Kept, DefinitionsKept
<1> QED BY <1>1, InitTypes, StepTypes, InitKept, KeptStep, PTL DEF Spec

(* EveryEnabledJobFires: while the scheduler runs, every enabled job whose   *)
(* schedule can be built is registered with it, and no removed job is.       *)
THEOREM EveryEnabledJobFires == Spec => []EnabledIsScheduled
BY InitTypes, StepTypes, InitKept, EnabledStep, PTL DEF Spec
-----------------------------------------------------------------------------
(* The state of a job settles.                                             *)

\* A job is what its fields are.
LEMMA SameJob ==
    ASSUME NEW a \in Job, NEW b \in Job, Definition(a) = Definition(b),
           a.status = b.status, a.errors = b.errors, a.total = b.total
    PROVE  a = b
<1>1. a.trigger = b.trigger /\ a.enabled = b.enabled
  BY DEF Definition
<1> QED BY <1>1 DEF Job

\* What a step that begins an execution of a job does to its state.
LEMMA ExecuteEffect ==
    ASSUME TypeInv, NEW id \in Ids, TriggerFires(id) \/ RunNow(id)
    PROVE  /\ up /\ id \in live /\ UNCHANGED <<up, live, file, mishaps>>
           /\ Definition(Last(objects'[id])) = Definition(Current(id))
           /\ Last(objects'[id]).total = Current(id).total + 1
           /\ \A y \in Ids : y # id => objects'[y] = objects[y] /\ counted'[y] = counted[y]
           /\ \A y \in Ids : Len(objects'[y]) = Len(objects[y])
           /\ counted'[id].begun = counted[id].begun + 1 /\ counted'[id].ended = counted[id].ended
           /\ \E e \in Execution : /\ e.id = id /\ e.object = Len(objects[id])
                                   /\ executions' = Append(executions, e)
<1>1. id \in live /\ up /\ UNCHANGED <<up, live, file, wanted, schedule, mishaps>>
  BY DEF TriggerFires, RunNow, Executable
<1>2. PICK by \in {"trigger", "request"} : Execute(id, by)
  BY DEF TriggerFires, RunNow
<1>3. PICK n : n = Len(objects[id]) /\ n \in DOMAIN objects[id] /\ n \in Nat
  BY <1>1, ObjectTypes
<1>4. PICK j : j = [Current(id) EXCEPT !.status = "running", !.total = @ + 1]
  OBVIOUS
<1>5. j \in Job /\ Definition(j) = Definition(Current(id)) /\ j.total = Current(id).total + 1
  <2>1. PICK g \in Job : g = Current(id)
    BY <1>1, ObjectTypes
  <2>2. PICK t \in Nat : t = g.total + 1
    BY <2>1 DEF Job
  <2>3. j = [g EXCEPT !.status = "running", !.total = t]
    BY <1>4, <2>1, <2>2
  <2>4. j \in Job /\ j.trigger = g.trigger /\ j.enabled = g.enabled /\ j.total = t
    BY <2>1, <2>3 DEF Job, Status
  <2> QED BY <2>1, <2>2, <2>4 DEF Definition
<1>6. objects \in [Ids -> Seq(Job)] /\ objects' = Put(objects, id, n, j)
  BY <1>2, <1>3, <1>4 DEF Execute, Put, TypeInv, TypeOK
<1>7. /\ objects' \in [Ids -> Seq(Job)]
      /\ \A y \in Ids : y # id => objects'[y] = objects[y]
      /\ Len(objects'[id]) = Len(objects[id]) /\ objects'[id][n] = j
  <2>1. \A p : p = Put(objects, id, n, j) =>
             /\ p \in [Ids -> Seq(Job)]
             /\ \A y \in Ids : y # id => p[y] = objects[y]
             /\ Len(p[id]) = Len(objects[id]) /\ p[id][n] = j
             /\ \A k \in DOMAIN objects[id] : k # n => p[id][k] = objects[id][k]
    <3>1. n \in DOMAIN objects[id] /\ id \in Ids /\ j \in Job /\ objects \in [Ids -> Seq(Job)]
      BY <1>3, <1>5, <1>6
    <3> QED BY <3>1, Rewritten
  <2> QED BY <1>6, <2>1
<1>8. Last(objects'[id]) = j
  <2>1. PICK q : q = objects'[id]
    OBVIOUS
  <2>2. Len(q) = n /\ q[n] = j
    BY <1>3, <1>7, <2>1
  <2>3. Last(q) = j
    BY <2>2 DEF Last
  <2> QED BY <2>1, <2>3
<1>9. PICK e : e = [id |-> id, object |-> n, by |-> by, phase |-> "fired"]
  OBVIOUS
<1>10. e \in Execution /\ e.id = id /\ e.object = n /\ executions' = Append(executions, e)
  BY <1>2, <1>3, <1>9 DEF Execute, Execution
<1>11. /\ counted'[id].begun = counted[id].begun + 1 /\ counted'[id].ended = counted[id].ended
       /\ \A y \in Ids : y # id => counted'[y] = counted[y]
  <2>1. counted \in [Ids -> [begun : Nat, ended : Nat]]
    BY DEF TypeInv, TypeOK
  <2>2. counted[id] \in [begun : Nat, ended : Nat]
    BY <2>1
  <2>3. counted' = [counted EXCEPT ![id].begun = @ + 1]
    BY <1>2 DEF Execute
  <2>4. PICK c : c = [counted[id] EXCEPT !.begun = counted[id].begun + 1]
    OBVIOUS
  <2>5. c.begun = counted[id].begun + 1 /\ c.ended = counted[id].ended
    BY <2>2, <2>4
  <2>6. counted' = [counted EXCEPT ![id] = c]
    BY <2>3, <2>4
  <2> QED BY <2>1, <2>5, <2>6
<1> QED BY <1>1, <1>3, <1>5, <1>7, <1>8, <1>10, <1>11

\* What a step of execution i does: its object becomes j; it goes on, or it ends
\* and the entry of its job gets the state of j.
GoesOn ==
    /\ UNCHANGED <<file, counted>>
    /\ DOMAIN executions' = DOMAIN executions
    /\ \A k \in DOMAIN executions : /\ executions'[k].id = executions[k].id
                                    /\ executions'[k].object = executions[k].object

LEMMA ProceedEffect ==
    ASSUME TypeInv, NEW i \in DOMAIN executions,
           HookReturns(i) \/ Succeed(i) \/ Fail(i) \/ PersistFailure(i)
    PROVE  \E j \in Job :
             /\ up /\ UNCHANGED <<up, live, mishaps>>
             /\ Definition(j) = Definition(objects[executions[i].id][executions[i].object])
             /\ j.total = objects[executions[i].id][executions[i].object].total
             /\ objects'[executions[i].id][executions[i].object] = j
             /\ \A y \in Ids : Len(objects'[y]) = Len(objects[y])
             /\ \A y \in Ids : y # executions[i].id => objects'[y] = objects[y]
             /\ GoesOn \/ (Ends(i) /\ file' = UpdateState(executions[i].id, j))
<1>1. executions \in Seq(Execution) /\ executions[i] \in Execution /\ executions # <<>>
  BY DEF TypeInv, TypeOK
<1>2. up /\ UNCHANGED <<up, live, mishaps>>
  BY <1>1 DEF TypeInv, HookReturns, Succeed, Fail, PersistFailure
<1>3. PICK g \in Job : g = objects[executions[i].id][executions[i].object]
  BY ObjectTypes
<1>f. ASSUME NEW phase \in {"executing", "failing"}, executions' = [executions EXCEPT ![i].phase = phase],
             UNCHANGED <<file, counted>>
      PROVE  GoesOn
  <2>1. PICK e : e = [executions[i] EXCEPT !.phase = phase]
    OBVIOUS
  <2>2. e.id = executions[i].id /\ e.object = executions[i].object
    BY <1>1, <2>1 DEF Execution
  <2>3. executions' = [executions EXCEPT ![i] = e]
    BY <1>f, <2>1
  <2> QED BY <1>1, <1>f, <2>2, <2>3 DEF GoesOn
<1>p. ASSUME NEW j \in Job, Definition(j) = Definition(g), j.total = g.total,
             objects' = Put(objects, executions[i].id, executions[i].object, j),
             GoesOn \/ (Ends(i) /\ file' = UpdateState(executions[i].id, j))
      PROVE  /\ objects'[executions[i].id][executions[i].object] = j
             /\ \A y \in Ids : Len(objects'[y]) = Len(objects[y])
             /\ \A y \in Ids : y # executions[i].id => objects'[y] = objects[y]
  BY <1>3, <1>p, RewriteTypes
<1>4. CASE HookReturns(i)
  <2>1. executions' = [executions EXCEPT ![i].phase = "executing"] /\ UNCHANGED <<objects, file, counted>>
    BY <1>4 DEF HookReturns
  <2>2. GoesOn
    BY <1>f, <2>1
  <2> QED BY <1>2, <1>3, <2>1, <2>2
<1>5. CASE Succeed(i)
  <2>1. PICK j : j = [g EXCEPT !.status = "success", !.errors = 0]
    OBVIOUS
  <2>2. j \in Job /\ Definition(j) = Definition(g) /\ j.total = g.total
    BY <2>1, Outcomes
  <2>3. /\ objects' = Put(objects, executions[i].id, executions[i].object, j)
        /\ file' = UpdateState(executions[i].id, j) /\ Ends(i)
    BY <1>3, <1>5, <2>1 DEF Succeed, Put
  <2> QED BY <1>2, <1>3, <1>p, <2>2, <2>3
<1>6. CASE Fail(i)
  <2>1. PICK j : j = Failed(g)
    OBVIOUS
  <2>2. j \in Job /\ Definition(j) = Definition(g) /\ j.total = g.total
    BY <2>1, Outcomes
  <2>3. /\ objects' = Put(objects, executions[i].id, executions[i].object, j)
        /\ UNCHANGED <<file, counted>>
        /\ executions' = [executions EXCEPT ![i].phase = "failing"]
    BY <1>3, <1>6, <2>1 DEF Fail, Put
  <2>4. GoesOn
    BY <1>f, <2>3
  <2> QED BY <1>2, <1>3, <1>p, <2>2, <2>3, <2>4
<1>7. CASE PersistFailure(i)
  <2>1. file' = UpdateState(executions[i].id, g) /\ Ends(i) /\ UNCHANGED objects
    BY <1>3, <1>7 DEF PersistFailure, Persisted
  <2> QED BY <1>2, <1>3, <2>1
<1> QED BY <1>4, <1>5, <1>6, <1>7

\* Counting executions of a job.
LEMMA UnderFinite ==
    ASSUME NEW x \in Seq(Execution), NEW id
    PROVE  IsFiniteSet(Under(id, x)) /\ Cardinality(Under(id, x)) \in Nat
<1>1. IsFiniteSet(1..Len(x)) /\ Under(id, x) \in SUBSET (1..Len(x))
  BY FS_Interval DEF Under
<1>2. IsFiniteSet(Under(id, x))
  BY <1>1, FS_Subset
<1> QED BY <1>2, FS_CardinalityType

\* One execution more.
LEMMA UnderBegins ==
    ASSUME NEW x \in Seq(Execution), NEW e \in Execution, NEW id
    PROVE  /\ Cardinality(Under(id, Append(x, e))) <= Cardinality(Under(id, x)) + 1
           /\ e.id # id => Under(id, Append(x, e)) = Under(id, x)
<1>1. PICK y : y = Append(x, e)
  OBVIOUS
<1>2. /\ DOMAIN y = 1..(Len(x) + 1) /\ DOMAIN x = 1..Len(x) /\ Len(x) \in Nat
      /\ y[Len(x) + 1] = e /\ \A k \in 1..Len(x) : y[k] = x[k]
  BY <1>1
<1>3. CASE e.id = id
  <2>1. Under(id, y) = Under(id, x) \union {Len(x) + 1}
    BY <1>2, <1>3 DEF Under
  <2>2. Cardinality(Under(id, x)) \in Nat /\ IsFiniteSet(Under(id, x))
    BY UnderFinite
  <2>3. Cardinality(Under(id, y)) =
          IF Len(x) + 1 \in Under(id, x) THEN Cardinality(Under(id, x)) ELSE Cardinality(Under(id, x)) + 1
    BY <2>1, <2>2, FS_AddElement
  <2> QED BY <1>1, <1>3, <2>2, <2>3
<1>4. CASE e.id # id
  <2>1. Under(id, y) = Under(id, x)
    BY <1>2, <1>4 DEF Under
  <2>2. Cardinality(Under(id, x)) \in Nat
    BY UnderFinite
  <2> QED BY <1>1, <2>1, <2>2
<1> QED BY <1>3, <1>4

\* One execution fewer: nothing else of another job, and one less of its own.
LEMMA UnderEnds ==
    ASSUME NEW x \in Seq(Execution), NEW i \in DOMAIN x, NEW id
    PROVE  \A y : y = RemoveAt(x, i) =>
             /\ Cardinality(Under(id, y)) <= Cardinality(Under(id, x))
             /\ x[i].id = id => Cardinality(Under(id, y)) + 1 <= Cardinality(Under(id, x))
<1> SUFFICES ASSUME NEW y, y = RemoveAt(x, i)
             PROVE  /\ Cardinality(Under(id, y)) <= Cardinality(Under(id, x))
                    /\ x[i].id = id => Cardinality(Under(id, y)) + 1 <= Cardinality(Under(id, x))
  OBVIOUS
<1>1. /\ y \in Seq(Execution)
      /\ \A k \in DOMAIN y : k < i => k \in DOMAIN x /\ y[k] = x[k]
      /\ \A k \in DOMAIN y : ~(k < i) => k + 1 \in DOMAIN x /\ y[k] = x[k + 1]
  BY OthersStay
<1>2. DOMAIN y \subseteq Nat /\ i \in Nat
  BY <1>1
<1>3. PICK f : f = [k \in Under(id, y) |-> IF k < i THEN k ELSE k + 1]
  OBVIOUS
<1>4. PICK S : S = Under(id, x) \ {i}
  OBVIOUS
<1>5. f \in [Under(id, y) -> S]
  <2>1. ASSUME NEW k \in Under(id, y)
        PROVE  (IF k < i THEN k ELSE k + 1) \in S
    <3>1. k \in DOMAIN y /\ y[k].id = id /\ k \in Nat
      BY <1>2 DEF Under
    <3>2. CASE k < i
      BY <1>1, <1>2, <1>4, <3>1, <3>2 DEF Under
    <3>3. CASE ~(k < i)
      <4>1. k + 1 \in DOMAIN x /\ x[k + 1].id = id /\ k + 1 # i
        BY <1>1, <1>2, <3>1, <3>3
      <4> QED BY <1>4, <3>3, <4>1 DEF Under
    <3> QED BY <3>2, <3>3
  <2> QED BY <1>3, <2>1
<1>6. \A a, b \in Under(id, y) : f[a] = f[b] => a = b
  <2>1. Under(id, y) \subseteq Nat
    BY <1>2 DEF Under
  <2> QED BY <1>2, <1>3, <2>1
<1>7. f \in Injection(Under(id, y), S)
  BY <1>5, <1>6 DEF Injection, IsInjective
<1>8. IsFiniteSet(Under(id, x)) /\ Cardinality(Under(id, x)) \in Nat
  BY UnderFinite
<1>9. /\ IsFiniteSet(S)
      /\ Cardinality(S) = IF i \in Under(id, x) THEN Cardinality(Under(id, x)) - 1 ELSE Cardinality(Under(id, x))
  BY <1>4, <1>8, FS_RemoveElement
<1>10. Cardinality(Under(id, y)) <= Cardinality(S)
  BY <1>7, <1>9, FS_Injection
<1>11. Cardinality(Under(id, y)) \in Nat
  BY <1>1, UnderFinite
<1>12. x[i].id = id => i \in Under(id, x)
  BY DEF Under
<1> QED BY <1>8, <1>9, <1>10, <1>11, <1>12

\* Who is idle after an execution has ended was idle, or it was their last.
LEMMA IdleEnds ==
    ASSUME NEW x \in Seq(Execution), NEW i \in DOMAIN x, NEW m \in DOMAIN x, m # i
    PROVE  \A y : y = RemoveAt(x, i) => \E k \in DOMAIN y : y[k] = x[m]
<1> SUFFICES ASSUME NEW y, y = RemoveAt(x, i)
             PROVE  \E k \in DOMAIN y : y[k] = x[m]
  OBVIOUS
<1>1. /\ y \in Seq(Execution) /\ Len(y) = Len(x) - 1
      /\ \A k \in DOMAIN y : k < i => y[k] = x[k]
      /\ \A k \in DOMAIN y : ~(k < i) => y[k] = x[k + 1]
  BY OthersStay
<1>2. DOMAIN x = 1..Len(x) /\ DOMAIN y = 1..(Len(x) - 1) /\ Len(x) \in Nat
  BY <1>1
<1>3. CASE m < i
  <2>1. m \in DOMAIN y
    BY <1>2, <1>3
  <2> QED BY <1>1, <1>3, <2>1
<1>4. CASE ~(m < i)
  <2>1. m - 1 \in DOMAIN y /\ ~(m - 1 < i) /\ (m - 1) + 1 = m
    BY <1>2, <1>4
  <2> QED BY <1>1, <2>1
<1> QED BY <1>3, <1>4

Clean == up /\ mishaps \intersect {"replaced", "raised"} = {}

\* FileMatches, of one job and of one execution.
Matches(id) ==
    /\ id \in DOMAIN file
    /\ Definition(file[id]) = Definition(Current(id))
    /\ Idle(id) => file[id] = Current(id)

LEMMA MatchesParts ==
    FileMatches <=> (Clean => /\ \A id \in live : Matches(id)
                              /\ \A i \in DOMAIN executions : executions[i].id \in live =>
                                    executions[i].object = Len(objects[executions[i].id]))
BY DEF FileMatches, Clean, Matches

LEMMA MatchesStep == TypeInv /\ FileMatches /\ [Next]_vars => FileMatches'
<1> SUFFICES ASSUME TypeInv, FileMatches, [Next]_vars, Clean'
             PROVE  /\ \A id \in live' : Matches(id)'
                    /\ \A i \in DOMAIN executions' : executions'[i].id \in live' =>
                          executions'[i].object = Len(objects'[executions'[i].id])
  BY DEF FileMatches, Clean, Matches
<1>m. Clean => /\ \A id \in live : Matches(id)
               /\ \A i \in DOMAIN executions : executions[i].id \in live =>
                    executions[i].object = Len(objects[executions[i].id])
  BY MatchesParts
<1>e. \A id : Matches(id)' <=> /\ id \in DOMAIN file'
                               /\ Definition(file'[id]) = Definition(Last(objects'[id]))
                               /\ (\A i \in DOMAIN executions' : executions'[i].id # id) =>
                                     file'[id] = Last(objects'[id])
  BY DEF Matches, Current, Idle, Definition
<1>1. CASE Start
  <2>1. /\ live' = DOMAIN file' /\ \A id \in live' : Last(objects'[id]) = file'[id]
        /\ executions' = <<>>
    BY <1>1, StartTypes DEF Clean
  <2> QED BY <1>e, <2>1
<1>2. CASE Stop \/ Crash
  BY <1>2, DiesTypes DEF Clean
<1>3. CASE Edits
  <2> PICK id \in Ids : \/ \E trigger \in Triggers, enabled \in BOOLEAN : AddJob(id, trigger, enabled)
                        \/ RemoveJob(id) \/ EnableJob(id) \/ DisableJob(id)
    BY <1>3 DEF Edits
  <2>0. Clean /\ UNCHANGED executions /\ mishaps \subseteq mishaps'
    <3>1. up /\ UNCHANGED executions
      BY DEF AddJob, RemoveJob, EnableJob, DisableJob, Edit
    <3>2. mishaps \subseteq mishaps'
      BY DEF AddJob, RemoveJob, EnableJob, DisableJob
    <3> QED BY <3>1, <3>2 DEF Clean
  <2>m. /\ \A y \in live : Matches(y)
        /\ \A i \in DOMAIN executions : executions[i].id \in live =>
                    executions[i].object = Len(objects[executions[i].id])
    BY <1>m, <2>0
  <2>o. ASSUME NEW y \in live, y \in DOMAIN file', file'[y] = file[y], objects'[y] = objects[y]
        PROVE  Matches(y)'
    BY <1>e, <2>0, <2>m, <2>o DEF Matches, Current, Idle
  <2>1. ASSUME NEW job, file' = With(file, id, job),
               Last(objects'[id]) = job, \A y \in Ids : y # id => objects'[y] = objects[y],
               live' = live \union {id},
               \A i \in DOMAIN executions : executions[i].id = id =>
                    executions[i].object = Len(objects'[id])
        PROVE  /\ \A y \in live' : Matches(y)'
               /\ \A i \in DOMAIN executions' : executions'[i].id \in live' =>
                     executions'[i].object = Len(objects'[executions'[i].id])
    <3>1. /\ DOMAIN file' = DOMAIN file \union {id} /\ file'[id] = job
          /\ \A y \in DOMAIN file : y # id => file'[y] = file[y]
      BY <2>1 DEF With
    <3>2. Matches(id)'
      BY <1>e, <2>1, <3>1
    <3>3. ASSUME NEW y \in live, y # id
          PROVE  Matches(y)'
      <4>1. y \in DOMAIN file /\ y \in Ids
        BY <2>m, ObjectTypes DEF Matches
      <4> QED BY <2>1, <2>o, <3>1, <3>3, <4>1
    <3>4. ASSUME NEW i \in DOMAIN executions, executions[i].id \in live'
          PROVE  executions[i].object = Len(objects'[executions[i].id])
      <4>1. CASE executions[i].id = id
        BY <2>1, <4>1
      <4>2. CASE executions[i].id # id
        <5>1. executions[i].id \in live /\ executions[i].id \in Ids
          BY <2>1, <3>4, <4>2, ObjectTypes
        <5> QED BY <2>1, <2>m, <4>2, <5>1
      <4> QED BY <4>1, <4>2
    <3> QED BY <2>0, <2>1, <3>2, <3>3, <3>4
  <2>2. CASE \E trigger \in Triggers, enabled \in BOOLEAN : AddJob(id, trigger, enabled)
    <3>1. PICK trigger \in Triggers, enabled \in BOOLEAN : AddJob(id, trigger, enabled)
      BY <2>2
    <3>2. PICK job : job = NewJob(trigger, enabled)
      OBVIOUS
    <3>3. /\ Last(objects'[id]) = job
          /\ \A y \in Ids : y # id => objects'[y] = objects[y]
      BY <3>1, <3>2, AddObjects
    <3>4. /\ live' = live \union {id}
          /\ file' = With(file, id, job) \/ "raised" \in mishaps'
          /\ Idle(id) \/ "replaced" \in mishaps'
      BY <3>1, <3>2 DEF AddJob
    <3>5. file' = With(file, id, job) /\ Idle(id)
      BY <3>4 DEF Clean
    <3>6. \A i \in DOMAIN executions : executions[i].id # id
      BY <3>5 DEF Idle
    <3> QED BY <2>1, <3>3, <3>4, <3>5, <3>6
  <2>3. CASE RemoveJob(id)
    <3>1. UNCHANGED objects /\ live' = live \ {id} /\ file' = Without(file, id)
      BY <2>3 DEF RemoveJob
    <3>2. DOMAIN file' = DOMAIN file \ {id} /\ \A y \in DOMAIN file' : file'[y] = file[y]
      BY <3>1 DEF Without
    <3>3. ASSUME NEW y \in live'
          PROVE  Matches(y)'
      <4>1. y \in live /\ y # id /\ y \in DOMAIN file
        BY <2>m, <3>1 DEF Matches
      <4> QED BY <2>o, <3>1, <3>2, <4>1
    <3> QED BY <2>0, <2>m, <3>1, <3>3
  <2>4. CASE EnableJob(id) \/ DisableJob(id)
    <3>1. PICK j \in Job : /\ id \in live /\ Flags(id, j)
                           /\ mishaps' \subseteq mishaps \union {"raised"}
                           /\ file' = With(file, id, j) \/ "raised" \in mishaps'
      <4>1. CASE EnableJob(id)
        <5>1. PICK j \in Job :
                /\ id \in live /\ Flags(id, j)
                /\ \/ Raises(j.trigger) /\ file' = file /\ mishaps' = mishaps \union {"raised"}
                   \/ file' = With(file, id, j) /\ mishaps' = mishaps
          BY <4>1, EnableFlags
        <5> QED BY <5>1
      <4>2. CASE DisableJob(id)
        <5>1. PICK j \in Job :
                /\ id \in live /\ Flags(id, j) /\ file' = With(file, id, j) /\ mishaps' = mishaps
          BY <4>2, DisableFlags
        <5> QED BY <5>1
      <4> QED BY <2>4, <4>1, <4>2
    <3>2. /\ Last(objects'[id]) = j
          /\ \A y \in Ids : y # id => objects'[y] = objects[y]
          /\ Len(objects'[id]) = Len(objects[id])
      BY <3>1, FlagTypes
    <3>3. live' = live \union {id}
      BY <3>1 DEF Flags
    <3>4. file' = With(file, id, j)
      BY <3>1 DEF Clean
    <3>5. \A i \in DOMAIN executions : executions[i].id = id =>
               executions[i].object = Len(objects'[id])
      BY <2>m, <3>1, <3>2
    <3> QED BY <2>1, <3>2, <3>3, <3>4, <3>5
  <2> QED BY <2>2, <2>3, <2>4
<1>4. CASE Executes
  <2>1. PICK id \in Ids : TriggerFires(id) \/ RunNow(id)
    BY <1>4 DEF Executes
  <2>2. /\ up /\ id \in live /\ UNCHANGED <<up, live, file, mishaps>>
        /\ Definition(Last(objects'[id])) = Definition(Current(id))
        /\ \A y \in Ids : y # id => objects'[y] = objects[y]
        /\ \A y \in Ids : Len(objects'[y]) = Len(objects[y])
    BY <2>1, ExecuteEffect
  <2>3. PICK e \in Execution : /\ e.id = id /\ e.object = Len(objects[id])
                               /\ executions' = Append(executions, e)
    BY <2>1, ExecuteEffect
  <2>4. /\ \A y \in live : Matches(y)
        /\ \A i \in DOMAIN executions : executions[i].id \in live =>
                    executions[i].object = Len(objects[executions[i].id])
    BY <1>m, <2>2 DEF Clean
  <2>5. /\ executions \in Seq(Execution) /\ Len(executions) \in Nat
        /\ DOMAIN executions = 1..Len(executions)
        /\ DOMAIN executions' = 1..(Len(executions) + 1)
        /\ executions'[Len(executions) + 1] = e
        /\ \A i \in DOMAIN executions : executions'[i] = executions[i]
    BY <2>3 DEF TypeInv, TypeOK
  <2>6. ASSUME NEW y \in live
        PROVE  Matches(y)'
    <3>1. CASE y = id
      <4>1. ~(\A i \in DOMAIN executions' : executions'[i].id # y)
        BY <2>3, <2>5, <3>1
      <4> QED BY <1>e, <2>2, <2>4, <3>1, <4>1 DEF Matches
    <3>2. CASE y # id
      <4>1. (\A i \in DOMAIN executions' : executions'[i].id # y) => Idle(y)
        BY <2>5 DEF Idle
      <4>2. Last(objects'[y]) = Current(y)
        BY <2>2, <3>2, ObjectTypes DEF Current
      <4> QED BY <1>e, <2>2, <2>4, <4>1, <4>2 DEF Matches
    <3> QED BY <3>1, <3>2
  <2>7. ASSUME NEW i \in DOMAIN executions', executions'[i].id \in live
        PROVE  executions'[i].object = Len(objects'[executions'[i].id])
    <3>1. CASE i \in DOMAIN executions
      BY <2>2, <2>4, <2>5, <2>7, <3>1, ObjectTypes
    <3>2. CASE i \notin DOMAIN executions
      <4>1. executions'[i] = e
        BY <2>5, <3>2
      <4> QED BY <2>2, <2>3, <4>1
    <3> QED BY <3>1, <3>2
  <2> QED BY <2>2, <2>6, <2>7
<1>5. CASE Proceeds
  <2>1. PICK i \in DOMAIN executions : HookReturns(i) \/ Succeed(i) \/ Fail(i) \/ PersistFailure(i)
    BY <1>5 DEF Proceeds
  <2>2. PICK id \in Ids, n \in Nat : id = executions[i].id /\ n = executions[i].object
    BY ObjectTypes
  <2>3. PICK j \in Job :
             /\ up /\ UNCHANGED <<up, live, mishaps>>
             /\ Definition(j) = Definition(objects[id][n])
             /\ objects'[id][n] = j
             /\ \A y \in Ids : Len(objects'[y]) = Len(objects[y])
             /\ \A y \in Ids : y # id => objects'[y] = objects[y]
             /\ GoesOn \/ (Ends(i) /\ file' = UpdateState(id, j))
    BY <2>1, <2>2, ProceedEffect
  <2>4. /\ \A y \in live : Matches(y)
        /\ \A k \in DOMAIN executions : executions[k].id \in live =>
                    executions[k].object = Len(objects[executions[k].id])
    BY <1>m, <2>3 DEF Clean
  <2>5. id \in live => /\ n = Len(objects[id]) /\ Current(id) = objects[id][n]
                       /\ Last(objects'[id]) = j
    <3> SUFFICES ASSUME id \in live PROVE /\ n = Len(objects[id]) /\ Current(id) = objects[id][n]
                                          /\ Last(objects'[id]) = j
      OBVIOUS
    <3>1. n = Len(objects[id])
      BY <2>2, <2>4
    <3>2. PICK q : q = objects'[id]
      OBVIOUS
    <3>3. Len(q) = n /\ q[n] = j
      BY <2>3, <3>1, <3>2
    <3>4. Last(q) = j
      BY <3>3 DEF Last
    <3> QED BY <3>1, <3>2, <3>4 DEF Current, Last
  <2>6. executions \in Seq(Execution)
    BY DEF TypeInv, TypeOK
  <2>7. CASE GoesOn
    <3>1. /\ UNCHANGED file /\ DOMAIN executions' = DOMAIN executions
          /\ \A k \in DOMAIN executions : /\ executions'[k].id = executions[k].id
                                          /\ executions'[k].object = executions[k].object
      BY <2>7 DEF GoesOn
    <3>2. ASSUME NEW y \in live
          PROVE  Matches(y)'
      <4>1. CASE y = id
        <5>1. ~(\A k \in DOMAIN executions' : executions'[k].id # y)
          BY <2>2, <3>1, <4>1
        <5>2. Definition(Last(objects'[y])) = Definition(Current(y))
          BY <2>3, <2>5, <4>1
        <5> QED BY <1>e, <2>4, <3>1, <5>1, <5>2 DEF Matches
      <4>2. CASE y # id
        <5>1. Last(objects'[y]) = Current(y)
          BY <2>3, <4>2, ObjectTypes DEF Current
        <5>2. (\A k \in DOMAIN executions' : executions'[k].id # y) => Idle(y)
          BY <3>1 DEF Idle
        <5> QED BY <1>e, <2>4, <3>1, <5>1, <5>2 DEF Matches
      <4> QED BY <4>1, <4>2
    <3>3. ASSUME NEW k \in DOMAIN executions, executions[k].id \in live
          PROVE  executions[k].object = Len(objects'[executions[k].id])
      BY <2>3, <2>4, <3>3, ObjectTypes
    <3> QED BY <2>3, <3>1, <3>2, <3>3
  <2>8. CASE Ends(i) /\ file' = UpdateState(id, j)
    <3>1. executions' = RemoveAt(executions, i)
      BY <2>8 DEF Ends
    <3>2. /\ DOMAIN file' = DOMAIN file
          /\ \A y \in DOMAIN file : /\ file'[y] \in Job /\ Definition(file'[y]) = Definition(file[y])
                                    /\ y # id => file'[y] = file[y]
          /\ id \in DOMAIN file => /\ file'[id].status = j.status /\ file'[id].errors = j.errors
                                   /\ file'[id].total = j.total
      BY <2>8, UpdateKeeps
    <3>3. ASSUME NEW y \in live
          PROVE  Matches(y)'
      <4>1. CASE y = id
        <5>1. id \in DOMAIN file /\ Definition(file[id]) = Definition(Current(id))
          BY <2>4, <3>3, <4>1 DEF Matches
        <5>2. Definition(file'[id]) = Definition(j)
          BY <2>3, <2>5, <3>2, <4>1, <5>1
        <5>3. file'[id] = j
          BY <3>2, <5>1, <5>2, SameJob
        <5> QED BY <1>e, <2>5, <3>2, <4>1, <5>1, <5>3
      <4>2. CASE y # id
        <5>1. Last(objects'[y]) = Current(y)
          BY <2>3, <4>2, ObjectTypes DEF Current
        <5>2. ASSUME \A k \in DOMAIN executions' : executions'[k].id # y
              PROVE  Idle(y)
          <6>1. ASSUME NEW m \in DOMAIN executions
                PROVE  executions[m].id # y
            <7>1. CASE m = i
              BY <2>2, <4>2, <7>1
            <7>2. CASE m # i
              <8>1. \E k \in DOMAIN executions' : executions'[k] = executions[m]
                BY <2>6, <3>1, <7>2, IdleEnds
              <8> QED BY <5>2, <8>1
            <7> QED BY <7>1, <7>2
          <6> QED BY <6>1 DEF Idle
        <5>3. y \in DOMAIN file /\ file'[y] = file[y]
          BY <2>4, <3>2, <4>2 DEF Matches
        <5> QED BY <1>e, <2>4, <3>2, <5>1, <5>2, <5>3 DEF Matches
      <4> QED BY <4>1, <4>2
    <3>4. \A k \in DOMAIN executions' : \E m \in DOMAIN executions : executions'[k] = executions[m]
      <4>1. /\ \A k \in DOMAIN executions' : k < i => k \in DOMAIN executions /\ executions'[k] = executions[k]
            /\ \A k \in DOMAIN executions' : ~(k < i) => k + 1 \in DOMAIN executions /\ executions'[k] = executions[k + 1]
        BY <2>6, <3>1, OthersStay
      <4> QED BY <4>1
    <3>5. ASSUME NEW k \in DOMAIN executions', executions'[k].id \in live
          PROVE  executions'[k].object = Len(objects'[executions'[k].id])
      <4>1. PICK m \in DOMAIN executions : executions'[k] = executions[m]
        BY <3>4
      <4> QED BY <2>3, <2>4, <3>5, <4>1, ObjectTypes
    <3> QED BY <2>3, <3>3, <3>5
  <2> QED BY <2>3, <2>7, <2>8
<1>6. CASE UNCHANGED vars
  <2>1. /\ UNCHANGED <<live, file, objects, executions>> /\ Clean
    BY <1>6 DEF vars, Clean
  <2> QED BY <1>e, <1>m, <2>1 DEF Matches, Current, Idle
<1> QED BY <1>1, <1>2, <1>3, <1>4, <1>5, <1>6, NextKinds

\* Counts, of the entry of a job and of its object.
EntryCounts(id) ==
    counted[id].ended <= file[id].total /\ file[id].total <= counted[id].begun

ObjectCounts(id) ==
    /\ counted[id].ended + Cardinality(Under(id, executions)) <= Current(id).total
    /\ Current(id).total <= counted[id].begun

LEMMA CountTypes ==
    ASSUME TypeInv
    PROVE  /\ \A id \in Ids : counted[id].begun \in Nat /\ counted[id].ended \in Nat
           /\ \A id \in Ids : Cardinality(Under(id, executions)) \in Nat
           /\ \A id \in live : Current(id).total \in Nat
           /\ \A id \in DOMAIN file : file[id].total \in Nat
<1>1. /\ counted \in [Ids -> [begun : Nat, ended : Nat]] /\ executions \in Seq(Execution)
      /\ \A id \in DOMAIN file : file[id] \in Job
  BY DEF TypeInv, TypeOK
<1>2. \A id \in Ids : Cardinality(Under(id, executions)) \in Nat
  BY <1>1, UnderFinite
<1>3. \A id \in live : Current(id).total \in Nat
  <2>1. ASSUME NEW id \in live
        PROVE  Current(id).total \in Nat
    <3>1. PICK g \in Job : g = Current(id)
      BY ObjectTypes
    <3> QED BY <3>1 DEF Job
  <2> QED BY <2>1
<1>4. \A id \in DOMAIN file : file[id].total \in Nat
  BY <1>1 DEF Job
<1> QED BY <1>1, <1>2, <1>3, <1>4

LEMMA CountsStep == TypeInv /\ FileMatches /\ Counts /\ [Next]_vars => Counts'
<1> SUFFICES ASSUME TypeInv, FileMatches, Counts, [Next]_vars, mishaps' = {}
             PROVE  /\ \A id \in DOMAIN file' : EntryCounts(id)'
                    /\ up' => live' = DOMAIN file' /\ \A id \in live' : ObjectCounts(id)'
  BY DEF Counts, EntryCounts, ObjectCounts
<1>c. mishaps = {} => /\ \A id \in DOMAIN file : EntryCounts(id)
                      /\ up => live = DOMAIN file /\ \A id \in live : ObjectCounts(id)
  BY DEF Counts, EntryCounts, ObjectCounts
<1>f. \A id : EntryCounts(id)' <=> /\ counted'[id].ended <= file'[id].total
                                   /\ file'[id].total <= counted'[id].begun
  BY DEF EntryCounts
<1>o. \A id : ObjectCounts(id)' <=>
        /\ counted'[id].ended + Cardinality(Under(id, executions')) <= Last(objects'[id]).total
        /\ Last(objects'[id]).total <= counted'[id].begun
  BY DEF ObjectCounts, Current, Under
<1>t. /\ DOMAIN file \subseteq Ids /\ live \subseteq Ids
      /\ executions \in Seq(Execution)
  BY DEF TypeInv, TypeOK
<1>0. \A id : Under(id, <<>>) = {} /\ Cardinality(Under(id, <<>>)) = 0
  BY FS_EmptySet DEF Under
<1>1. CASE Start
  <2>1. PICK m : m = Merged
    OBVIOUS
  <2>2. /\ DOMAIN m \subseteq Ids /\ \A id \in DOMAIN m : m[id] \in Job
        /\ \A id \in DOMAIN file : m[id] = file[id]
        /\ \A id \in DOMAIN m : id \notin DOMAIN file => m[id].total = 0
    BY <2>1, MergedType
  <2>3. /\ file' = m /\ UNCHANGED mishaps
        /\ counted' = [id \in Ids |-> IF id \in DOMAIN file THEN counted[id]
                                      ELSE [begun |-> 0, ended |-> 0]]
    BY <1>1, <2>1 DEF Start
  <2>4. ASSUME NEW id \in DOMAIN m
        PROVE  counted'[id].ended <= m[id].total /\ m[id].total <= counted'[id].begun
    <3>1. CASE id \in DOMAIN file
      <4>1. counted'[id] = counted[id] /\ m[id] = file[id]
        BY <2>2, <2>3, <3>1
      <4> QED BY <1>c, <2>3, <3>1, <4>1 DEF EntryCounts
    <3>2. CASE id \notin DOMAIN file
      <4>1. counted'[id].ended = 0 /\ counted'[id].begun = 0 /\ m[id].total = 0
        BY <2>2, <2>3, <3>2
      <4> QED BY <4>1
    <3> QED BY <3>1, <3>2
  <2>5. /\ executions' = <<>>
        /\ up' => live' = DOMAIN file' /\ \A id \in live' : Last(objects'[id]) = file'[id]
    BY <1>1, StartTypes
  <2>6. ASSUME up', NEW id \in live'
        PROVE  ObjectCounts(id)'
    <3>1. id \in DOMAIN m /\ Last(objects'[id]) = m[id] /\ Cardinality(Under(id, executions')) = 0
      BY <1>0, <2>3, <2>5, <2>6
    <3>2. counted'[id].ended \in Nat /\ counted'[id].ended <= m[id].total
          /\ m[id].total <= counted'[id].begun
      <4>1. TypeInv'
        BY <1>1, StartTypes
      <4>2. id \in Ids /\ counted' \in [Ids -> [begun : Nat, ended : Nat]]
        BY <2>2, <3>1, <4>1 DEF TypeInv, TypeOK
      <4> QED BY <2>4, <3>1, <4>2
    <3> QED BY <1>o, <3>1, <3>2
  <2> QED BY <1>f, <2>3, <2>4, <2>5, <2>6
<1>2. CASE Stop
  <2>1. /\ file' = [id \in live |-> Current(id)] /\ UNCHANGED <<counted, mishaps>> /\ up /\ ~up'
    BY <1>2 DEF Stop, Dies
  <2>2. ASSUME NEW id \in live
        PROVE  EntryCounts(id)'
    <3>1. ObjectCounts(id)
      BY <1>c, <2>1
    <3>2. /\ counted[id].ended \in Nat /\ Cardinality(Under(id, executions)) \in Nat
          /\ Current(id).total \in Nat
      BY <1>t, CountTypes
    <3>3. file'[id] = Current(id) /\ counted'[id] = counted[id]
      BY <2>1
    <3>4. counted[id].ended <= Current(id).total /\ Current(id).total <= counted[id].begun
      BY <3>1, <3>2 DEF ObjectCounts
    <3> QED BY <1>f, <3>3, <3>4
  <2> QED BY <2>1, <2>2
<1>3. CASE Crash
  <2>1. /\ ~up' /\ UNCHANGED counted /\ (UNCHANGED <<file, mishaps>> \/ "torn" \in mishaps')
    BY <1>3 DEF Crash, Dies
  <2>2. /\ ~up' /\ UNCHANGED counted
    BY <1>3 DEF Crash, Dies
  <2> QED BY <1>c, <1>f, <2>1, <2>2 DEF EntryCounts
<1>4. CASE Edits
  <2> PICK id \in Ids : \/ \E trigger \in Triggers, enabled \in BOOLEAN : AddJob(id, trigger, enabled)
                        \/ RemoveJob(id) \/ EnableJob(id) \/ DisableJob(id)
    BY <1>4 DEF Edits
  <2>0. mishaps = {} /\ up /\ UNCHANGED <<up, executions>>
    <3>1. up /\ UNCHANGED <<up, executions>>
      BY DEF AddJob, RemoveJob, EnableJob, DisableJob, Edit
    <3>2. mishaps \subseteq mishaps'
      BY DEF AddJob, RemoveJob, EnableJob, DisableJob
    <3> QED BY <3>1, <3>2
  <2>c. /\ \A y \in DOMAIN file : EntryCounts(y)
        /\ live = DOMAIN file /\ \A y \in live : ObjectCounts(y)
    BY <1>c, <2>0
  <2>y. ASSUME NEW y \in DOMAIN file, file'[y] = file[y], objects'[y] = objects[y],
               counted'[y] = counted[y]
        PROVE  EntryCounts(y)' /\ ObjectCounts(y)'
    BY <1>f, <1>o, <2>0, <2>c, <2>y DEF EntryCounts, ObjectCounts, Current
  <2>1. ASSUME NEW job, file' = With(file, id, job), live' = live \union {id},
               \A y \in Ids : y # id => objects'[y] = objects[y] /\ counted'[y] = counted[y],
               counted'[id].ended <= job.total, job.total <= counted'[id].begun,
               ObjectCounts(id)'
        PROVE  /\ \A y \in DOMAIN file' : EntryCounts(y)'
               /\ live' = DOMAIN file' /\ \A y \in live' : ObjectCounts(y)'
    <3>1. /\ DOMAIN file' = DOMAIN file \union {id} /\ file'[id] = job
          /\ \A y \in DOMAIN file : y # id => file'[y] = file[y]
      BY <2>1 DEF With
    <3>2. EntryCounts(id)' /\ ObjectCounts(id)'
      BY <1>f, <2>1, <3>1
    <3>3. ASSUME NEW y \in DOMAIN file, y # id
          PROVE  EntryCounts(y)' /\ ObjectCounts(y)'
      BY <1>t, <2>1, <2>y, <3>1, <3>3
    <3> QED BY <2>1, <2>c, <3>1, <3>2, <3>3
  <2>2. CASE \E trigger \in Triggers, enabled \in BOOLEAN : AddJob(id, trigger, enabled)
    <3>1. PICK trigger \in Triggers, enabled \in BOOLEAN : AddJob(id, trigger, enabled)
      BY <2>2
    <3>2. PICK job : job = NewJob(trigger, enabled) /\ job.total = 0
      BY NewJobType, CronAssumption
    <3>3. /\ Last(objects'[id]) = job
          /\ \A y \in Ids : y # id => objects'[y] = objects[y]
      BY <3>1, <3>2, AddObjects
    <3>4. /\ live' = live \union {id}
          /\ counted' = [counted EXCEPT ![id] = [begun |-> 0, ended |-> 0]]
          /\ file' = With(file, id, job) \/ "raised" \in mishaps'
          /\ Idle(id) \/ "replaced" \in mishaps'
      BY <3>1, <3>2 DEF AddJob
    <3>5. file' = With(file, id, job) /\ Under(id, executions) = {}
      BY <3>4 DEF Idle, Under
    <3>6. /\ counted'[id].ended = 0 /\ counted'[id].begun = 0
          /\ \A y \in Ids : y # id => counted'[y] = counted[y]
      BY <3>4 DEF TypeInv, TypeOK
    <3>7. Cardinality(Under(id, executions')) = 0
      BY <2>0, <3>5, FS_EmptySet
    <3>8. ObjectCounts(id)'
      BY <1>o, <3>2, <3>3, <3>6, <3>7
    <3>9. counted'[id].ended <= job.total /\ job.total <= counted'[id].begun
      BY <3>2, <3>6
    <3> QED BY <2>1, <3>3, <3>4, <3>5, <3>6, <3>8, <3>9
  <2>3. CASE RemoveJob(id)
    <3>1. UNCHANGED <<objects, counted>> /\ live' = live \ {id} /\ file' = Without(file, id)
      BY <2>3 DEF RemoveJob
    <3>2. DOMAIN file' = DOMAIN file \ {id} /\ \A y \in DOMAIN file' : file'[y] = file[y]
      BY <3>1 DEF Without
    <3>3. \A y \in DOMAIN file' : EntryCounts(y)' /\ ObjectCounts(y)'
      BY <2>y, <3>1, <3>2
    <3> QED BY <2>c, <3>1, <3>2, <3>3
  <2>4. CASE EnableJob(id) \/ DisableJob(id)
    <3>1. PICK j \in Job : /\ id \in live /\ Flags(id, j) /\ j.total = Current(id).total
                           /\ mishaps' \subseteq mishaps \union {"raised"}
                           /\ file' = With(file, id, j) \/ "raised" \in mishaps'
      <4>1. CASE EnableJob(id)
        <5>1. PICK j \in Job :
                /\ id \in live /\ Flags(id, j) /\ j.total = Current(id).total
                /\ \/ Raises(j.trigger) /\ file' = file /\ mishaps' = mishaps \union {"raised"}
                   \/ file' = With(file, id, j) /\ mishaps' = mishaps
          BY <4>1, EnableFlags
        <5> QED BY <5>1
      <4>2. CASE DisableJob(id)
        <5>1. PICK j \in Job :
                /\ id \in live /\ Flags(id, j) /\ j.total = Current(id).total
                /\ file' = With(file, id, j) /\ mishaps' = mishaps
          BY <4>2, DisableFlags
        <5> QED BY <5>1
      <4> QED BY <2>4, <4>1, <4>2
    <3>2. /\ Last(objects'[id]) = j
          /\ \A y \in Ids : y # id => objects'[y] = objects[y]
      BY <3>1, FlagTypes
    <3>3. live' = live \union {id} /\ UNCHANGED counted
      BY <3>1 DEF Flags
    <3>4. file' = With(file, id, j)
      BY <3>1
    <3>5. ObjectCounts(id)
      BY <2>c, <3>1
    <3>6. ObjectCounts(id)'
      BY <1>o, <2>0, <3>1, <3>2, <3>3, <3>5 DEF ObjectCounts
    <3>7. counted'[id].ended <= j.total /\ j.total <= counted'[id].begun
      <4>1. /\ counted[id].ended \in Nat /\ Cardinality(Under(id, executions)) \in Nat
            /\ Current(id).total \in Nat
        BY <3>1, CountTypes
      <4>2. counted[id].ended <= Current(id).total /\ Current(id).total <= counted[id].begun
        BY <3>5, <4>1 DEF ObjectCounts
      <4> QED BY <3>1, <3>3, <4>2
    <3> QED BY <2>1, <3>2, <3>3, <3>4, <3>6, <3>7
  <2> QED BY <2>0, <2>2, <2>3, <2>4
<1>5. CASE Executes
  <2>1. PICK id \in Ids : TriggerFires(id) \/ RunNow(id)
    BY <1>5 DEF Executes
  <2>2. /\ up /\ id \in live /\ UNCHANGED <<up, live, file, mishaps>>
        /\ Last(objects'[id]).total = Current(id).total + 1
        /\ \A y \in Ids : y # id => objects'[y] = objects[y] /\ counted'[y] = counted[y]
        /\ counted'[id].begun = counted[id].begun + 1 /\ counted'[id].ended = counted[id].ended
    BY <2>1, ExecuteEffect
  <2>3. PICK e \in Execution : e.id = id /\ executions' = Append(executions, e)
    BY <2>1, ExecuteEffect
  <2>c. /\ \A y \in DOMAIN file : EntryCounts(y)
        /\ live = DOMAIN file /\ \A y \in live : ObjectCounts(y)
    BY <1>c, <2>2
  <2>4. ASSUME NEW y \in live, y # id
        PROVE  EntryCounts(y)' /\ ObjectCounts(y)'
    <3>1. file'[y] = file[y] /\ objects'[y] = objects[y] /\ counted'[y] = counted[y]
      BY <1>t, <2>2, <2>4
    <3>2. Under(y, executions') = Under(y, executions)
      BY <1>t, <2>3, <2>4, UnderBegins
    <3> QED BY <1>f, <1>o, <2>c, <3>1, <3>2 DEF EntryCounts, ObjectCounts, Current
  <2>5. EntryCounts(id)' /\ ObjectCounts(id)'
    <3>1. /\ counted[id].begun \in Nat /\ counted[id].ended \in Nat
          /\ Cardinality(Under(id, executions)) \in Nat
          /\ Current(id).total \in Nat /\ file[id].total \in Nat
      BY <1>t, <2>2, <2>c, CountTypes
    <3>2. /\ Cardinality(Under(id, executions')) <= Cardinality(Under(id, executions)) + 1
          /\ Cardinality(Under(id, executions')) \in Nat
      <4>1. executions' \in Seq(Execution)
        BY <1>t, <2>3
      <4> QED BY <1>t, <2>3, <4>1, UnderBegins, UnderFinite
    <3>3. /\ counted[id].ended + Cardinality(Under(id, executions)) <= Current(id).total
          /\ Current(id).total <= counted[id].begun
      BY <2>2, <2>c DEF ObjectCounts
    <3>4. counted[id].ended <= file[id].total /\ file[id].total <= counted[id].begun
      BY <2>2, <2>c DEF EntryCounts
    <3>5. ObjectCounts(id)'
      BY <1>o, <2>2, <3>1, <3>2, <3>3
    <3>6. EntryCounts(id)'
      BY <1>f, <2>2, <3>1, <3>4
    <3> QED BY <3>5, <3>6
  <2> QED BY <2>2, <2>4, <2>5, <2>c
<1>6. CASE Proceeds
  <2>1. PICK i \in DOMAIN executions : HookReturns(i) \/ Succeed(i) \/ Fail(i) \/ PersistFailure(i)
    BY <1>6 DEF Proceeds
  <2>2. PICK id \in Ids, n \in Nat : id = executions[i].id /\ n = executions[i].object
    BY ObjectTypes
  <2>3. PICK j \in Job :
             /\ up /\ UNCHANGED <<up, live, mishaps>>
             /\ j.total = objects[id][n].total
             /\ objects'[id][n] = j
             /\ \A y \in Ids : Len(objects'[y]) = Len(objects[y])
             /\ \A y \in Ids : y # id => objects'[y] = objects[y]
             /\ GoesOn \/ (Ends(i) /\ file' = UpdateState(id, j))
    BY <2>1, <2>2, ProceedEffect
  <2>c. /\ \A y \in DOMAIN file : EntryCounts(y)
        /\ live = DOMAIN file /\ \A y \in live : ObjectCounts(y)
    BY <1>c, <2>3
  <2>5. id \in live => /\ n = Len(objects[id]) /\ Current(id).total = j.total
                       /\ Last(objects'[id]) = j
    <3> SUFFICES ASSUME id \in live PROVE /\ n = Len(objects[id]) /\ Current(id).total = j.total
                                          /\ Last(objects'[id]) = j
      OBVIOUS
    <3>1. n = Len(objects[id])
      BY <2>2, <2>3 DEF FileMatches
    <3>2. PICK q : q = objects'[id]
      OBVIOUS
    <3>3. Len(q) = n /\ q[n] = j
      BY <2>3, <3>1, <3>2
    <3>4. Last(q) = j
      BY <3>3 DEF Last
    <3> QED BY <2>3, <3>1, <3>2, <3>4 DEF Current, Last
  <2>6. \A y \in live : Last(objects'[y]).total = Current(y).total
    <3>1. ASSUME NEW y \in live, y # id
          PROVE  Last(objects'[y]).total = Current(y).total
      BY <1>t, <2>3, <3>1 DEF Current
    <3> QED BY <2>5, <3>1
  <2>7. CASE GoesOn
    <3>1. /\ UNCHANGED <<file, counted>> /\ DOMAIN executions' = DOMAIN executions
          /\ \A k \in DOMAIN executions : executions'[k].id = executions[k].id
      BY <2>7 DEF GoesOn
    <3>2. \A y \in live : Under(y, executions') = Under(y, executions)
      BY <3>1 DEF Under
    <3>3. \A y \in live : EntryCounts(y)' /\ ObjectCounts(y)'
      BY <1>f, <1>o, <2>6, <2>c, <3>1, <3>2 DEF EntryCounts, ObjectCounts
    <3> QED BY <2>3, <2>c, <3>1, <3>3
  <2>8. CASE Ends(i) /\ file' = UpdateState(id, j)
    <3>1. /\ executions' = RemoveAt(executions, i)
          /\ counted' = [counted EXCEPT ![id].ended = IF n = Len(objects[id]) THEN @ + 1 ELSE @]
      BY <2>2, <2>8 DEF Ends
    <3>2. /\ DOMAIN file' = DOMAIN file
          /\ \A y \in DOMAIN file : y # id => file'[y] = file[y]
          /\ id \in DOMAIN file => file'[id].total = j.total
      BY <2>8, UpdateKeeps
    <3>3. /\ \A y \in Ids : y # id => counted'[y] = counted[y]
          /\ n = Len(objects[id]) => /\ counted'[id].ended = counted[id].ended + 1
                                     /\ counted'[id].begun = counted[id].begun
      <4>1. counted \in [Ids -> [begun : Nat, ended : Nat]] /\ counted[id] \in [begun : Nat, ended : Nat]
        BY DEF TypeInv, TypeOK
      <4>2. PICK c : c = [counted[id] EXCEPT !.ended = IF n = Len(objects[id]) THEN @ + 1 ELSE @]
        OBVIOUS
      <4>3. n = Len(objects[id]) => c.ended = counted[id].ended + 1 /\ c.begun = counted[id].begun
        BY <4>1, <4>2
      <4>4. counted' = [counted EXCEPT ![id] = c]
        BY <3>1, <4>2
      <4> QED BY <4>1, <4>3, <4>4
    <3>4. ASSUME NEW y \in live
          PROVE  /\ Cardinality(Under(y, executions')) \in Nat
                 /\ Cardinality(Under(y, executions')) <= Cardinality(Under(y, executions))
                 /\ y = id => Cardinality(Under(y, executions')) + 1 <= Cardinality(Under(y, executions))
      <4>1. executions' \in Seq(Execution)
        BY <1>t, <3>1, OthersStay
      <4> QED BY <1>t, <2>2, <3>1, <4>1, UnderEnds, UnderFinite
    <3>5. ASSUME NEW y \in live
          PROVE  EntryCounts(y)' /\ ObjectCounts(y)'
      <4>1. /\ counted[y].begun \in Nat /\ counted[y].ended \in Nat
            /\ Cardinality(Under(y, executions)) \in Nat /\ Current(y).total \in Nat
        BY <1>t, CountTypes
      <4>2. /\ counted[y].ended + Cardinality(Under(y, executions)) <= Current(y).total
            /\ Current(y).total <= counted[y].begun
        BY <2>c DEF ObjectCounts
      <4>3. CASE y = id
        <5>1. /\ counted'[y].ended = counted[y].ended + 1 /\ counted'[y].begun = counted[y].begun
              /\ file'[y].total = Current(y).total
          BY <2>5, <2>c, <3>2, <3>3, <4>3
        <5>2. counted'[y].ended + Cardinality(Under(y, executions')) <= Current(y).total
          BY <3>4, <4>1, <4>2, <4>3, <5>1
        <5>3. counted'[y].ended <= Current(y).total
          BY <3>4, <4>1, <5>1, <5>2
        <5>4. ObjectCounts(y)'
          BY <1>o, <2>6, <4>2, <5>1, <5>2
        <5>5. EntryCounts(y)'
          BY <1>f, <4>2, <5>1, <5>3
        <5> QED BY <5>4, <5>5
      <4>4. CASE y # id
        <5>1. counted'[y] = counted[y] /\ file'[y] = file[y]
          BY <1>t, <2>c, <3>2, <3>3, <4>4
        <5>2. EntryCounts(y)'
          BY <1>f, <2>c, <5>1 DEF EntryCounts
        <5>3. counted[y].ended + Cardinality(Under(y, executions')) <= Current(y).total
          BY <3>4, <4>1, <4>2
        <5>4. ObjectCounts(y)'
          BY <1>o, <2>6, <4>2, <5>1, <5>3
        <5> QED BY <5>2, <5>4
      <4> QED BY <4>3, <4>4
    <3> QED BY <2>3, <2>c, <3>2, <3>5
  <2> QED BY <2>3, <2>7, <2>8
<1>7. CASE UNCHANGED vars
  <2>1. UNCHANGED <<up, live, file, objects, executions, counted, mishaps>>
    BY <1>7 DEF vars
  <2> QED BY <1>c, <1>f, <1>o, <2>1 DEF EntryCounts, ObjectCounts, Current
<1> QED BY <1>1, <1>2, <1>3, <1>4, <1>5, <1>6, <1>7, NextKinds

LEMMA InitState == Init => FileMatches /\ Counts
<1> SUFFICES ASSUME Init PROVE FileMatches /\ Counts
  OBVIOUS
<1>1. \A id \in DOMAIN file : id \in Ids /\ file[id].total = 0
  <2>1. CASE file = Empty
    BY <2>1 DEF Empty
  <2>2. CASE file = [id \in Ids |-> NewJob("daily", id \notin Defaults)]
    BY <2>2 DEF NewJob
  <2> QED BY <2>1, <2>2 DEF Init
<1>2. ~up /\ \A id \in Ids : counted[id].begun = 0 /\ counted[id].ended = 0
  BY DEF Init
<1> QED BY <1>1, <1>2 DEF FileMatches, Counts

(* StateIsSettled: however executions of a job overlap, fail or meet edits,  *)
(* jobs.json has the state of a job none of whose executions is under way,   *)
(* unless it was replaced during one or a trigger raised; and total_runs     *)
(* counts every execution that ended and none that did not begin, across     *)
(* restarts and crashes.                                                     *)
THEOREM StateIsSettled == Spec => []StateSettles
<1>1. TypeInv /\ FileMatches /\ Counts => StateSettles
  <2> SUFFICES ASSUME TypeInv, FileMatches, Counts
               PROVE  StateSettles
    OBVIOUS
  <2>1. ASSUME up, mishaps = {}, NEW id \in live
        PROVE  counted[id].ended <= Current(id).total /\ Current(id).total <= counted[id].begun
    <3>1. /\ counted[id].ended + Cardinality(Under(id, executions)) <= Current(id).total
          /\ Current(id).total <= counted[id].begun
      BY <2>1 DEF Counts
    <3>2. /\ counted[id].ended \in Nat /\ Cardinality(Under(id, executions)) \in Nat
          /\ Current(id).total \in Nat
      BY ObjectTypes, CountTypes
    <3> QED BY <3>1, <3>2
  <2> QED BY <2>1 DEF StateSettles, FileMatches
<1> QED BY <1>1, InitTypes, StepTypes, InitState, MatchesStep, CountsStep, PTL DEF Spec
=============================================================================
