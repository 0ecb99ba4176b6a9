-------------------------- MODULE RouteCatalogProofs --------------------------
(***************************************************************************)
(* Theorems about the route catalog (RouteCatalog with RouteJournal), for  *)
(* any entries, operation ids, files, bounds and number of restarts: its    *)
(* children, its verdicts, what it waits for, and the atomic catalog it is. *)
(***************************************************************************)
EXTENDS RouteCatalog, FiniteSetTheorems, TLAPS

(* The directory and the children hold values of their types.              *)
JournalTypes ==
    /\ file \in Catalogs
    /\ journal \in [Ids -> Journals]
    /\ receipt \in [Ids -> Digests \cup {None}]
    /\ children \subseteq Children
    /\ commits \in Seq(Entries)

(* So does the lifecycle.                                                  *)
QueueTypes ==
    /\ queue \in Seq(Entries)
    /\ active \in Entries \cup {None}
    /\ attempts \in [Entries -> Nat]
    /\ current \in Attempts \cup {None}
    /\ timers \in [Entries -> Nat] /\ retry \in BOOLEAN

AnswerTypes ==
    /\ applying \subseteq [tok : Tokens, snap : Catalogs]
    /\ latest \in Catalogs \cup {None}
    /\ out \in [Entries -> Settled \cup {"new", "waiting"}]
    /\ req \in [Entries -> Requests \cup {None}]

StopTypes ==
    /\ hardBlocked \in BOOLEAN /\ stopped \in BOOLEAN /\ stopError \in BOOLEAN
    /\ stopping \in {"no", "cleanup", "cancel", "apply", "failed", "stopped"}

(* What a child needs at the point where it is.                            *)
ChildInv(c) ==
    /\ c.pc \in {"journal", "mutate"} => c.base \in [Files -> SUBSET Ids]
    /\ c.pc \in {"mutate", "rollback"} => c.saved \in Catalogs
    /\ c.ans \in Successes => c.snap \in Catalogs

(* Whoever is attempted was asked for.                                     *)
AskedInv ==
    /\ \A e \in Entries : out[e] # "new" => req[e] \in Requests
    /\ \A k \in 1 .. Len(queue) : out[queue[k]] # "new"
    /\ active # None => out[active] # "new"
    /\ \A e \in Entries : timers[e] > 0 => out[e] # "new"
    /\ \A c \in children : out[c.tok[1]] # "new"
    /\ \A k \in 1 .. Len(commits) : out[commits[k]] # "new"
    /\ \E n \in Nat : {e \in Entries : out[e] # "new"} = 1 .. n

(* There is one child, the one of the current attempt.                     *)
ProcessInv ==
    /\ \A c \in children : current # None /\ c.tok = current.tok
    /\ \A c, d \in children : c = d

(* How far stop() is, and how far the attempt is that it waits for.        *)
StopInv ==
    /\ stopped <=> stopping # "no"
    /\ In("running") => ~stopped
    /\ In("cancelling") => stopping = "cancel"
    /\ In("cleaning") /\ stopped => stopping = "cleanup"
    /\ stopping = "stopped" \/ (stopping = "apply" /\ ~stopError) => current = None

(* A receipt is there for every commit, and no child is about to commit    *)
(* what has one.                                                           *)
ReceiptInv ==
    /\ \A k \in 1 .. Len(commits) : receipt[req[commits[k]].id] # None
    /\ \A c \in children : c.pc \in {"journal", "mutate"} => receipt[Request(c).id] = None

RouteInv ==
    /\ JournalTypes /\ QueueTypes /\ AnswerTypes /\ StopTypes
    /\ \A c \in children : ChildInv(c)
    /\ AskedInv /\ ProcessInv /\ StopInv /\ ReceiptInv /\ CommitsOnce
-----------------------------------------------------------------------------
(* The child.                                                              *)

(* A fresh child.                                                          *)
LEMMA FreshChild ==
    ASSUME NEW t \in Tokens
    PROVE  /\ NewChild(t) \in Children /\ NewChild(t).tok = t
           /\ NewChild(t).pc = "recover" /\ ChildInv(NewChild(t))
BY JournalAssumption DEF NewChild, Children, ChildInv, Answers

(* A child that exits.                                                     *)
LEMMA ExitedChild ==
    ASSUME JournalTypes, NEW c \in Children, NEW ans \in Answers, Exit(c, ans),
           children = {c}
    PROVE  \E d \in Children :
               /\ children' = {d} /\ d.tok = c.tok /\ d.pc = "done" /\ d.ans = ans
               /\ ChildInv(d) /\ (ans \in Successes => d.snap = file)
<1> DEFINE s == IF ans \in Successes THEN file ELSE None
           d == [c EXCEPT !.pc = "done", !.ans = ans, !.base = None, !.saved = None,
                          !.snap = s]
<1>1. s \in Catalogs \cup {None} /\ (ans \in Successes => s \in Catalogs /\ s = file)
  BY DEF JournalTypes
<1>2. /\ d \in Children /\ d.tok = c.tok /\ d.pc = "done" /\ d.ans = ans /\ d.snap = s
  BY <1>1 DEF Children
<1>3. children' = {d}
  BY DEF Exit, Become
<1> HIDE DEF d, s
<1> QED
  BY <1>1, <1>2, <1>3 DEF ChildInv

(* A child that goes on.                                                   *)
LEMMA MovedChild ==
    ASSUME NEW c \in Children, children = {c}, At(c, "check") \/ At(c, "clean"), 
           ChildInv(c)
    PROVE  \E d \in Children :
               /\ children' = {d} /\ d.tok = c.tok /\ d.pc \in {"check", "clean"}
               /\ d.ans = c.ans /\ ChildInv(d)
<1>1. ASSUME NEW pc \in {"check", "clean"}, At(c, pc)
      PROVE  \E d \in Children :
                 /\ children' = {d} /\ d.tok = c.tok /\ d.pc \in {"check", "clean"}
                 /\ d.ans = c.ans /\ ChildInv(d)
  <2> DEFINE d == [c EXCEPT !.pc = pc]
  <2>1. /\ d \in Children /\ d.tok = c.tok /\ d.pc = pc
        /\ d.ans = c.ans /\ d.snap = c.snap
    BY DEF Children
  <2>2. children' = {d}
    BY <1>1 DEF At, Become
  <2> HIDE DEF d
  <2> QED
    BY <2>1, <2>2 DEF ChildInv
<1> QED
  BY <1>1

(* Writing one file, or one that is not there, keeps a catalog.            *)
LEMMA OneFileWritten ==
    ASSUME file \in Catalogs, NEW f, NEW content,
           f \in Files => content \in (SUBSET Ids) \cup {Torn}
    PROVE  [file EXCEPT ![f] = content] \in Catalogs
BY DEF Catalogs

(* Restoring a file, or dropping the journal, keeps the types.             *)
LEMMA RestoreTypes ==
    ASSUME JournalTypes, NEW i \in Ids, NEW backup \in Catalogs, Restore(i, backup)
    PROVE  file' \in Catalogs /\ journal' \in [Ids -> Journals]
<1>1. CASE file = backup
  BY <1>1 DEF Restore, JournalTypes, Journals
<1>2. CASE file # backup
  <2>1. PICK f : file' = [file EXCEPT ![f] = backup[f]]
    BY <1>2 DEF Restore
  <2>2. f \in Files => backup[f] \in (SUBSET Ids) \cup {Torn}
    BY DEF Catalogs
  <2>3. file' \in Catalogs
    BY <2>1, <2>2, OneFileWritten DEF JournalTypes
  <2> QED
    BY <1>2, <2>3 DEF Restore, JournalTypes
<1> QED
  BY <1>1, <1>2

(* The answer that can be given before anything is written.                *)
LEMMA VerdictGiven ==
    ASSUME JournalTypes, NEW r \in Requests
    PROVE  /\ Verdict(r) \in Answers \cup {None}
           /\ Verdict(r) = None => /\ Whole /\ r.kind = "mutate" /\ receipt[r.id] = None
                                  /\ r.expect \in {None, file}
           /\ Verdict(r) = "conflict" => /\ Whole /\ r.kind = "mutate"
                                        /\ receipt[r.id] = None
                                        /\ r.expect \notin {None, file}
           /\ Verdict(r) \in Successes /\ r.kind = "mutate" => receipt[r.id] # None
           /\ Verdict(r) \in Successes => Whole
<1>1. /\ r.kind \in {"mutate", "capture", "resolve"}
      /\ Answers = {"ok", "committed", "not_committed", "conflict", "idempotency", "failed"}
      /\ Successes = {"ok", "committed", "not_committed"} /\ None \notin Answers
  BY JournalAssumption DEF Requests, Kinds, Answers, Successes
<1>2. CASE ~Whole
  <2>1. Verdict(r) = "failed"
    BY <1>2 DEF Verdict
  <2> QED
    BY <1>1, <2>1
<1>3. CASE Whole /\ r.kind = "capture"
  <2>1. Verdict(r) = "ok"
    BY <1>3 DEF Verdict
  <2> QED
    BY <1>1, <1>3, <2>1
<1>4. CASE Whole /\ r.kind = "resolve"
  <2>1. Verdict(r) \in {"committed", "not_committed"}
    BY <1>4 DEF Verdict
  <2> QED
    BY <1>1, <1>4, <2>1
<1>5. CASE Whole /\ r.kind = "mutate" /\ receipt[r.id] # None
  <2>1. Verdict(r) \in {"ok", "idempotency"}
    BY <1>5 DEF Verdict
  <2> QED
    BY <1>1, <1>5, <2>1
<1>6. CASE Whole /\ r.kind = "mutate" /\ receipt[r.id] = None
  <2>1. Verdict(r) = IF r.expect \in {None, file} THEN None ELSE "conflict"
    BY <1>6 DEF Verdict
  <2> QED
    BY <1>1, <1>6, <2>1
<1> QED
  BY <1>1, <1>2, <1>3, <1>4, <1>5, <1>6

(* What the steps of a child have in common, whose request is r: it goes   *)
(* on or exits, and it commits only what has no receipt.                   *)
Moved(c, d, r) ==
    /\ d \in Children /\ children' = {d} /\ d.tok = c.tok /\ ChildInv(d)
    /\ \/ /\ receipt' = receipt /\ commits' = commits
          /\ d.pc \in {"journal", "mutate"} => receipt[r.id] = None
       \/ /\ receipt[r.id] = None /\ d.pc = "clean"
          /\ receipt' = [receipt EXCEPT ![r.id] = r.digest]
          /\ commits' = Append(commits, c.tok[1])

(* Every step of the child keeps the types and moves it so.                *)
LEMMA ChildMoves ==
    ASSUME RouteInv, NEW c \in Running, ChildStep(c)
    PROVE  /\ Request(c) \in Requests
           /\ \E d \in Children : Moved(c, d, Request(c))
           /\ file' \in Catalogs /\ journal' \in [Ids -> Journals] /\ req' = req
<1>1. /\ c \in Children /\ children = {c} /\ ChildInv(c) /\ JournalTypes /\ Alive(c)
      /\ c.pc \in {"journal", "mutate"} => receipt[Request(c).id] = None
  BY DEF RouteInv, Running, ProcessInv, JournalTypes, ReceiptInv
<1>2. c.tok[1] \in Entries
  BY <1>1 DEF Children, Tokens
<1>3. Request(c) \in Requests
  BY <1>1, <1>2 DEF RouteInv, AskedInv, Request
<1>4. /\ Request(c).id \in Ids /\ Request(c).digest \in Digests
      /\ \A i \in Ids : journal[i] \in Journals
      /\ \A i \in Pending : i \in Ids /\ journal[i].backup \in Catalogs
  BY <1>1, <1>3 DEF Requests, JournalTypes, Journals, Pending, Backups
<1>5. ASSUME NEW ans \in Answers, Exit(c, ans), UNCHANGED <<receipt, commits>>
      PROVE  \E d \in Children : Moved(c, d, Request(c))
  <2>1. PICK d \in Children :
            children' = {d} /\ d.tok = c.tok /\ d.pc = "done" /\ d.ans = ans /\ ChildInv(d)
    BY <1>1, <1>5, ExitedChild
  <2> QED
    BY <1>5, <2>1 DEF Moved
<1>6. CASE Recover(c)
  <2>1. Moved(c, c, Request(c)) /\ req' = req
    BY <1>1, <1>6 DEF Recover, Moved
  <2>2. file' \in Catalogs /\ journal' \in [Ids -> Journals]
    <3>1. PICK i \in Pending :
              IF IsLeftover(i)
              THEN journal' = [journal EXCEPT ![i] = None] /\ UNCHANGED file
              ELSE Restore(i, journal[i].backup)
      BY <1>6 DEF Recover
    <3>2. CASE IsLeftover(i)
      BY <1>1, <3>1, <3>2 DEF JournalTypes, Journals
    <3>3. CASE ~IsLeftover(i)
      BY <1>1, <1>4, <3>1, <3>3, RestoreTypes
    <3> QED
      BY <3>2, <3>3
  <2> QED
    BY <1>1, <1>3, <2>1, <2>2
<1>7. CASE RecoverDone(c)
  <2>1. PICK d \in Children : /\ children' = {d} /\ d.tok = c.tok /\ d.pc \in {"check", "clean"}
                              /\ d.ans = c.ans /\ ChildInv(d)
    BY <1>1, <1>7, MovedChild DEF RecoverDone
  <2>2. Moved(c, d, Request(c))
    BY <1>7, <2>1 DEF RecoverDone, Moved
  <2> QED
    BY <1>1, <1>3, <1>7, <2>2 DEF RecoverDone, JournalTypes
<1>8. CASE Check(c)
  <2>1. /\ Verdict(Request(c)) \in Answers \cup {None}
        /\ Verdict(Request(c)) = None => Whole /\ receipt[Request(c).id] = None
    BY <1>1, <1>3, VerdictGiven
  <2>2. file' = file /\ journal' = journal /\ receipt' = receipt /\ req' = req /\ commits' = commits
    BY <1>8 DEF Check
  <2>3. CASE Verdict(Request(c)) # None
    <3>1. Exit(c, Verdict(Request(c)))
      BY <1>8, <2>3 DEF Check
    <3> QED
      BY <1>1, <1>3, <1>5, <2>1, <2>2, <2>3, <3>1 DEF JournalTypes
  <2>4. CASE Verdict(Request(c)) = None
    <3> DEFINE d == [c EXCEPT !.pc = "journal", !.base = file]
    <3>1. file \in [Files -> SUBSET Ids]
      BY <1>1, <2>1, <2>4 DEF JournalTypes, Catalogs, Whole
    <3>2. /\ d \in Children /\ d.tok = c.tok /\ d.pc = "journal" /\ d.base = file
          /\ d.ans = c.ans /\ d.snap = c.snap
      BY <1>1 DEF Children, JournalTypes
    <3>3. children' = {d}
      BY <1>1, <1>8, <2>4 DEF Check, Become
    <3> HIDE DEF d
    <3>4. Moved(c, d, Request(c))
      BY <1>1, <2>1, <2>2, <2>4, <3>1, <3>2, <3>3 DEF Moved, ChildInv
    <3> QED
      BY <1>1, <1>3, <2>2, <3>2, <3>4 DEF JournalTypes
  <2> QED
    BY <2>3, <2>4
<1>9. CASE WriteJournal(c)
  <2> DEFINE d == [c EXCEPT !.pc = "mutate", !.saved = file]
  <2>1. /\ d \in Children /\ d.tok = c.tok /\ d.pc = "mutate" /\ d.base = c.base
        /\ d.saved = file /\ d.ans = c.ans /\ d.snap = c.snap
    BY <1>1 DEF Children, JournalTypes
  <2>2. children' = {d} /\ UNCHANGED <<file, receipt, req, commits>>
    BY <1>1, <1>9 DEF WriteJournal, Become
  <2>3. journal' \in [Ids -> Journals]
    BY <1>1, <1>4, <1>9 DEF WriteJournal, JournalTypes, Journals, Backups
  <2>4. c.pc = "journal"
    BY <1>9 DEF WriteJournal
  <2> HIDE DEF d
  <2>5. Moved(c, d, Request(c))
    BY <1>1, <2>1, <2>2, <2>4 DEF Moved, ChildInv, JournalTypes
  <2> QED
    BY <1>1, <1>3, <2>1, <2>2, <2>3, <2>5 DEF JournalTypes
<1>10. CASE Mutate(c)
  <2>1. Moved(c, c, Request(c)) /\ req' = req /\ journal' = journal
    BY <1>1, <1>10 DEF Mutate, Moved
  <2>2. PICK f : file' = [file EXCEPT ![f] = IF @ = Torn THEN Target(c, f) ELSE Torn]
    BY <1>10 DEF Mutate
  <2>3. c.base \in [Files -> SUBSET Ids]
    BY <1>1, <1>10 DEF Mutate, ChildInv
  <2>4. f \in Files => (IF file[f] = Torn THEN Target(c, f) ELSE Torn) \in (SUBSET Ids) \cup {Torn}
    BY <1>4, <2>3 DEF Target
  <2>5. file' \in Catalogs
    BY <1>1, <2>2, <2>4, OneFileWritten DEF JournalTypes
  <2> QED
    BY <1>1, <1>3, <2>1, <2>5 DEF JournalTypes
<1>11. CASE WriteReceipt(c)
  <2>1. PICK d \in Children : /\ children' = {d} /\ d.tok = c.tok /\ d.pc \in {"check", "clean"}
                              /\ d.ans = c.ans /\ ChildInv(d) /\ d.pc = "clean"
    <3> DEFINE d == [c EXCEPT !.pc = "clean"]
    <3>1. /\ d \in Children /\ d.tok = c.tok /\ d.pc = "clean" /\ d.ans = c.ans
          /\ d.snap = c.snap
      BY <1>1 DEF Children
    <3>2. children' = {d}
      BY <1>1, <1>11 DEF WriteReceipt, At, Become
    <3> HIDE DEF d
    <3> QED
      BY <1>1, <3>1, <3>2 DEF ChildInv
  <2>2. Moved(c, d, Request(c))
    BY <1>1, <1>11, <2>1 DEF WriteReceipt, Moved
  <2> QED
    BY <1>1, <1>3, <1>11, <2>2 DEF WriteReceipt, JournalTypes
<1>12. CASE Clean(c)
  <2>1. Exit(c, "ok") /\ UNCHANGED <<file, receipt, req, commits>> /\ "ok" \in Answers
    BY <1>12 DEF Clean, Answers, Successes
  <2>2. journal' \in [Ids -> Journals]
    BY <1>1, <1>4, <1>12 DEF Clean, JournalTypes, Journals
  <2> QED
    BY <1>1, <1>3, <1>5, <2>1, <2>2 DEF JournalTypes
<1>13. CASE Rollback(c)
  <2>1. c.pc = "rollback" /\ c.saved \in Catalogs
    BY <1>1, <1>13 DEF Rollback, ChildInv
  <2>2. file' \in Catalogs /\ journal' \in [Ids -> Journals]
    BY <1>1, <1>4, <1>13, <2>1, RestoreTypes DEF Rollback
  <2>3. UNCHANGED <<receipt, req, commits>>
    BY <1>13 DEF Rollback
  <2>4. CASE file = c.saved
    <3>1. Exit(c, "failed") /\ "failed" \in Answers
      BY <1>13, <2>4 DEF Rollback, Answers
    <3> QED
      BY <1>3, <1>5, <2>2, <2>3, <3>1
  <2>5. CASE file # c.saved
    <3>1. Moved(c, c, Request(c))
      BY <1>1, <1>13, <2>1, <2>3, <2>5 DEF Rollback, Moved
    <3> QED
      BY <1>1, <1>3, <2>2, <2>3, <3>1
  <2> QED
    BY <2>4, <2>5
<1>14. CASE Throw(c)
  <2>1. UNCHANGED <<file, journal, receipt, req, commits>>
    BY <1>14 DEF Throw
  <2>2. CASE c.pc = "mutate"
    <3> DEFINE d == [c EXCEPT !.pc = "rollback"]
    <3>1. /\ d \in Children /\ d.tok = c.tok /\ d.pc = "rollback" /\ d.ans = c.ans
          /\ d.snap = c.snap /\ d.saved = c.saved
      BY <1>1 DEF Children
    <3>2. children' = {d}
      BY <1>1, <1>14, <2>2 DEF Throw, At, Become
    <3> HIDE DEF d
    <3>3. Moved(c, d, Request(c))
      BY <1>1, <2>1, <2>2, <3>1, <3>2 DEF Moved, ChildInv
    <3> QED
      BY <1>1, <1>3, <2>1, <3>1, <3>3 DEF JournalTypes
  <2>3. CASE c.pc # "mutate"
    <3>1. Exit(c, "failed") /\ "failed" \in Answers
      BY <1>14, <2>3 DEF Throw, Answers
    <3> QED
      BY <1>1, <1>3, <1>5, <2>1, <3>1 DEF JournalTypes
  <2> QED
    BY <2>2, <2>3
<1> QED
  BY <1>3, <1>6, <1>7, <1>8, <1>9, <1>10, <1>11, <1>12, <1>13, <1>14 DEF ChildStep

(* A step of the child keeps the invariant.                                *)
LEMMA ChildKeeps ==
    ASSUME RouteInv, ChildMove
    PROVE  RouteInv'
<1>1. PICK c \in Running : ChildStep(c)
  BY DEF ChildMove
<1>2. /\ Request(c) \in Requests /\ req' = req
      /\ file' \in Catalogs /\ journal' \in [Ids -> Journals]
  BY <1>1, ChildMoves
<1>3. PICK d \in Children : Moved(c, d, Request(c))
  BY <1>1, ChildMoves
<1>4. c \in children /\ c \in Children /\ c.tok[1] \in Entries /\ out[c.tok[1]] # "new"
  BY DEF RouteInv, Running, JournalTypes, Children, Tokens, AskedInv
<1>5. /\ Request(c).id \in Ids /\ Request(c).digest \in Digests
      /\ Request(c).digest # None
  BY <1>2, JournalAssumption DEF Requests
<1>6. UNCHANGED <<queue, active, attempts, current, timers, retry, applyVars, out, stopVars,
                  restarts>>
  BY DEF ChildMove
<1>7. JournalTypes'
  <2>1. receipt' \in [Ids -> Digests \cup {None}]
    BY <1>3, <1>5 DEF RouteInv, JournalTypes, Moved
  <2>2. commits' \in Seq(Entries)
    BY <1>3, <1>4 DEF RouteInv, JournalTypes, Moved
  <2> QED
    BY <1>2, <1>3, <2>1, <2>2 DEF JournalTypes, Moved
<1>8. QueueTypes' /\ AnswerTypes' /\ StopTypes'
  BY <1>2, <1>6 DEF RouteInv, QueueTypes, AnswerTypes, StopTypes, applyVars, stopVars
<1>9. (\A k \in children : ChildInv(k))'
  BY <1>3 DEF Moved
<1>10. ProcessInv' /\ StopInv'
  BY <1>3, <1>4, <1>6 DEF RouteInv, ProcessInv, StopInv, Moved, stopVars, In
<1>11. AskedInv' /\ ReceiptInv' /\ CommitsOnce'
  <2>1. CASE receipt' = receipt /\ commits' = commits
    <3>1. AskedInv'
      BY <1>2, <1>3, <1>4, <1>6, <2>1 DEF RouteInv, AskedInv, Moved, applyVars
    <3>2. ReceiptInv'
      BY <1>2, <1>3, <2>1, <1>5 DEF RouteInv, ReceiptInv, Moved, Request
    <3>3. CommitsOnce'
      BY <1>2, <2>1 DEF RouteInv, CommitsOnce
    <3> QED
      BY <3>1, <3>2, <3>3
  <2>2. CASE /\ receipt[Request(c).id] = None /\ d.pc = "clean"
             /\ receipt' = [receipt EXCEPT ![Request(c).id] = Request(c).digest]
             /\ commits' = Append(commits, c.tok[1])
    <3>1. /\ Len(commits') = Len(commits) + 1 /\ Len(commits) \in Nat
          /\ commits'[Len(commits) + 1] = c.tok[1]
          /\ \A k \in 1 .. Len(commits) : commits'[k] = commits[k] /\ commits[k] \in Entries
          /\ DOMAIN commits = 1 .. Len(commits) /\ DOMAIN commits' = 1 .. (Len(commits) + 1)
      BY <1>4, <2>2 DEF RouteInv, JournalTypes
    <3>2. \A k \in 1 .. Len(commits') :
              k \in 1 .. Len(commits) \/ k = Len(commits) + 1
      BY <3>1
    <3>3. req'[commits'[Len(commits) + 1]].id = Request(c).id
      BY <1>2, <3>1 DEF Request
    <3>4. \A k \in 1 .. Len(commits) :
              /\ req'[commits'[k]] = req[commits[k]] /\ req[commits[k]] \in Requests
              /\ req[commits[k]].id \in Ids /\ receipt[req[commits[k]].id] # None
      BY <1>2, <3>1 DEF RouteInv, AskedInv, ReceiptInv, Requests
    <3>5. AskedInv'
      <4>1. \A k \in 1 .. Len(commits') : out'[commits'[k]] # "new"
        BY <1>4, <1>6, <3>1, <3>2 DEF RouteInv, AskedInv
      <4> QED
        BY <1>2, <1>3, <1>4, <1>6, <4>1 DEF RouteInv, AskedInv, Moved
    <3>6. ReceiptInv'
      <4>1. \A k \in 1 .. Len(commits') : receipt'[req'[commits'[k]].id] # None
        BY <1>5, <2>2, <3>2, <3>3, <3>4 DEF RouteInv, JournalTypes
      <4>2. \A k \in children' : k.pc \notin {"journal", "mutate"}
        BY <1>3, <2>2 DEF Moved
      <4> QED
        BY <4>1, <4>2 DEF ReceiptInv
    <3>7. CommitsOnce'
      BY <2>2, <3>1, <3>2, <3>3, <3>4 DEF RouteInv, CommitsOnce
    <3> QED
      BY <3>5, <3>6, <3>7
  <2> QED
    BY <1>3, <2>1, <2>2 DEF Moved
<1> QED
  BY <1>7, <1>8, <1>9, <1>10, <1>11 DEF RouteInv

-----------------------------------------------------------------------------
(* The lifecycle.                                                          *)

(* What pump() does: nothing, or the active entry is attempted, or the     *)
(* next one of the queue.                                                  *)
LEMMA PumpCases ==
    ASSUME NEW a, NEW q, NEW cur, NEW rt, Pump(a, q, cur, rt)
    PROVE  \/ /\ active' = a /\ queue' = q /\ current' = cur /\ attempts' = attempts
              /\ children' = Kept(cur)
           \/ MayPump(cur, rt) /\ a # None /\ Launch(a, a, q, None)
           \/ MayPump(cur, rt) /\ a = None /\ q # <<>> /\ Launch(Head(q), Head(q), Tail(q), None)
BY DEF Pump, MayPump

(* What is left of the children when an attempt is over or goes on.        *)
LEMMA KeptChildren ==
    ASSUME ProcessInv, NEW cur
    PROVE  /\ Kept(cur) \subseteq children
           /\ cur = None /\ Running = {} => Kept(cur) = {}
           /\ Kept(None) = Running
BY DEF Kept, Running, Alive, ProcessInv

(* When no attempt is current, or its process is gone, no child runs.      *)
LEMMA NobodyRuns ==
    ASSUME ProcessInv, current = None \/ Gone(current.tok)
    PROVE  Running = {}
BY DEF ProcessInv, Gone, Running

(* A sequence without its head.                                            *)
LEMMA TailOfEntries ==
    ASSUME NEW q \in Seq(Entries), q # <<>>
    PROVE  /\ Head(q) \in Entries /\ Head(q) = q[1] /\ 1 \in 1 .. Len(q)
           /\ Tail(q) \in Seq(Entries)
           /\ \A k \in 1 .. Len(Tail(q)) : k + 1 \in 1 .. Len(q) /\ Tail(q)[k] = q[k + 1]
OBVIOUS

(* What an entry that is attempted looks like.                             *)
Attempted(e) ==
    /\ attempts' = [attempts EXCEPT ![e] = @ + 1]
    /\ current' \in Attempts /\ current' # None
    /\ current'.tok = <<e, attempts[e] + 1>> /\ current'.phase = "running"
    /\ \E c \in Children : /\ children' = {c} /\ ChildInv(c)
                           /\ c.tok = <<e, attempts[e] + 1>> /\ c.pc = "recover"
                           /\ c.ans = None

(* startAttempt() makes the attempt of its entry.                          *)
LEMMA LaunchAttempts ==
    ASSUME RouteInv, Running = {}, NEW e \in Entries, NEW a, NEW q, Launch(e, a, q, None)
    PROVE  Attempted(e) /\ active' = a /\ queue' = q /\ attempts' \in [Entries -> Nat]
<1> DEFINE t == <<e, attempts[e] + 1>>
<1>1. t \in Tokens /\ attempts' = [attempts EXCEPT ![e] = @ + 1] /\ attempts' \in [Entries -> Nat]
  BY DEF RouteInv, QueueTypes, Tokens, Launch
<1>2. current' \in Attempts /\ current'.tok = t /\ current'.phase = "running"
  BY <1>1 DEF Launch, Token, Attempts
<1>3. current' # None
  BY <1>2, CatalogAssumption
<1>4. children' = {NewChild(t)}
  BY KeptChildren DEF Launch, RouteInv
<1>5. /\ NewChild(t) \in Children /\ NewChild(t).tok = t /\ NewChild(t).pc = "recover"
      /\ ChildInv(NewChild(t)) /\ NewChild(t).ans = None
  BY <1>1, FreshChild DEF NewChild
<1>6. active' = a /\ queue' = q
  BY DEF Launch
<1> HIDE DEF t
<1>7. \E c \in Children : /\ children' = {c} /\ ChildInv(c) /\ c.tok = t /\ c.pc = "recover"
                          /\ c.ans = None
  BY <1>4, <1>5
<1> QED
  BY <1>1, <1>2, <1>3, <1>6, <1>7 DEF Attempted, t

(* What every callback that pumps has in common: it leaves an attempt cur, *)
(* and pump() may attempt another entry.                                   *)
Pumped(cur) ==
    /\ queue' \in Seq(Entries) /\ active' \in Entries \cup {None}
    /\ attempts' \in [Entries -> Nat] /\ current' \in Attempts \cup {None}
    /\ children' \subseteq Children
    /\ \A c \in children' : /\ ChildInv(c) /\ out'[c.tok[1]] # "new"
                            /\ c \in children \/ c.pc = "recover"
    /\ ProcessInv'
    /\ active' # None => out'[active'] # "new"
    /\ \A k \in 1 .. Len(queue') : out'[queue'[k]] # "new"
    /\ \/ current' = cur
       \/ ~stopped /\ current' # None /\ current'.phase = "running"

(* pump() keeps the queue, the attempt and the child in order.             *)
LEMMA PumpKeeps ==
    ASSUME RouteInv, NEW a \in Entries \cup {None}, NEW q \in Seq(Entries),
           NEW cur \in Attempts \cup {None}, NEW rt, Pump(a, q, cur, rt),
           cur = current \/ (cur = None /\ Running = {}),
           \A e \in Entries : out[e] # "new" => out'[e] # "new",
           a # None => out'[a] # "new",
           \A k \in 1 .. Len(q) : out'[q[k]] # "new"
    PROVE  Pumped(cur)
<1>1. CASE /\ active' = a /\ queue' = q /\ current' = cur /\ attempts' = attempts
           /\ children' = Kept(cur)
  <2>1. children' \subseteq children /\ (cur = None /\ Running = {} => children' = {})
    BY <1>1, KeptChildren DEF RouteInv
  <2>2. ProcessInv'
    BY <1>1, <2>1 DEF RouteInv, ProcessInv
  <2>3. \A c \in children : c.tok[1] \in Entries /\ ChildInv(c) /\ out[c.tok[1]] # "new"
    BY DEF RouteInv, JournalTypes, Children, Tokens, AskedInv
  <2> QED
    BY <1>1, <2>1, <2>2, <2>3 DEF Pumped, RouteInv, JournalTypes, QueueTypes
<1>2. ASSUME NEW e \in Entries, NEW a2 \in Entries \cup {None}, NEW q2 \in Seq(Entries),
             Launch(e, a2, q2, None), MayPump(cur, rt),
             out'[e] # "new", a2 # None => out'[a2] # "new",
             \A k \in 1 .. Len(q2) : out'[q2[k]] # "new"
      PROVE  Pumped(cur)
  <2>1. Running = {} /\ ~stopped
    BY <1>2, NobodyRuns DEF MayPump, RouteInv
  <2>2. Attempted(e) /\ active' = a2 /\ queue' = q2 /\ attempts' \in [Entries -> Nat]
    BY <1>2, <2>1, LaunchAttempts
  <2>3. PICK c \in Children : /\ children' = {c} /\ ChildInv(c)
                              /\ c.tok = <<e, attempts[e] + 1>> /\ c.pc = "recover"
    BY <2>2 DEF Attempted
  <2>4. /\ current' \in Attempts /\ current' # None /\ current'.phase = "running"
        /\ current'.tok = <<e, attempts[e] + 1>>
    BY <2>2 DEF Attempted
  <2> QED
    BY <1>2, <2>1, <2>2, <2>3, <2>4 DEF Pumped, ProcessInv
<1>3. CASE MayPump(cur, rt) /\ a # None /\ Launch(a, a, q, None)
  BY <1>2, <1>3
<1>4. CASE MayPump(cur, rt) /\ a = None /\ q # <<>> /\ Launch(Head(q), Head(q), Tail(q), None)
  <2>1. /\ Head(q) \in Entries /\ Tail(q) \in Seq(Entries) /\ out'[Head(q)] # "new"
        /\ \A k \in 1 .. Len(Tail(q)) : out'[Tail(q)[k]] # "new"
    BY <1>4, TailOfEntries
  <2> QED
    BY <1>2, <1>4, <2>1
<1> QED
  BY <1>1, <1>3, <1>4, PumpCases

(* What is left to show of a callback that leaves the directory alone.     *)
LEMMA CallbackKeeps ==
    ASSUME RouteInv, NEW cur, Pumped(cur), UNCHANGED diskVars,
           AnswerTypes', StopTypes', StopInv', timers' \in [Entries -> Nat], retry' \in BOOLEAN,
           \A e \in Entries : out[e] # "new" => req'[e] = req[e] /\ out'[e] # "new",
           \A e \in Entries : out'[e] # "new" => req'[e] \in Requests,
           \A e \in Entries : timers'[e] > 0 => out'[e] # "new",
           \E n \in Nat : {e \in Entries : out'[e] # "new"} = 1 .. n
    PROVE  RouteInv'
<1>1. JournalTypes' /\ QueueTypes'
  BY DEF RouteInv, JournalTypes, QueueTypes, diskVars, Pumped
<1>2. (\A c \in children : ChildInv(c))' /\ ProcessInv'
  BY DEF Pumped
<1>3. commits' = commits /\ receipt' = receipt /\ \A k \in 1 .. Len(commits) : commits[k] \in Entries
  BY DEF diskVars, RouteInv, JournalTypes
<1>4. \A k \in 1 .. Len(commits) : req'[commits[k]] = req[commits[k]] /\ out'[commits[k]] # "new"
  BY <1>3 DEF RouteInv, AskedInv
<1>5. AskedInv'
  <2>1. (\A k \in 1 .. Len(commits) : out[commits[k]] # "new")'
    BY <1>3, <1>4
  <2> QED
    BY <2>1 DEF AskedInv, Pumped
<1>6. ReceiptInv'
  <2>1. ASSUME NEW c \in children', c.pc \in {"journal", "mutate"}
        PROVE  receipt[req'[c.tok[1]].id] = None
    <3>1. c \in children /\ c.tok[1] \in Entries /\ out[c.tok[1]] # "new"
      BY <2>1 DEF Pumped, RouteInv, JournalTypes, Children, Tokens, AskedInv
    <3> QED
      BY <2>1, <3>1 DEF RouteInv, ReceiptInv, Request
  <2> QED
    BY <1>3, <1>4, <2>1 DEF RouteInv, ReceiptInv, Request
<1>7. CommitsOnce'
  <2>1. DOMAIN commits = 1 .. Len(commits)
    BY DEF RouteInv, JournalTypes
  <2> QED
    BY <1>3, <1>4, <2>1 DEF RouteInv, CommitsOnce
<1> QED
  BY <1>1, <1>2, <1>5, <1>6, <1>7 DEF RouteInv

(* An answer changes nobody's request, and nobody is new who was not.      *)
LEMMA AnswersKeep ==
    ASSUME RouteInv, req' = req, \A e \in Entries : out'[e] = "new" <=> out[e] = "new"
    PROVE  /\ \A e \in Entries : out[e] # "new" => req'[e] = req[e] /\ out'[e] # "new"
           /\ \A e \in Entries : out'[e] # "new" => req'[e] \in Requests
           /\ \E n \in Nat : {e \in Entries : out'[e] # "new"} = 1 .. n
BY DEF RouteInv, AskedInv

(* A callback that pumps and answers nobody new.                           *)
LEMMA AnswerKeeps ==
    ASSUME RouteInv, NEW cur, Pumped(cur), UNCHANGED <<diskVars, req>>,
           applying' \subseteq [tok : Tokens, snap : Catalogs],
           latest' \in Catalogs \cup {None},
           out' \in [Entries -> Settled \cup {"new", "waiting"}],
           \A e \in Entries : out'[e] = "new" <=> out[e] = "new",
           StopTypes', StopInv', timers' \in [Entries -> Nat], retry' \in BOOLEAN,
           \A e \in Entries : timers'[e] > 0 => out'[e] # "new"
    PROVE  RouteInv'
<1>1. AnswerTypes'
  BY DEF RouteInv, AnswerTypes
<1> QED
  BY <1>1, AnswersKeep, CallbackKeeps DEF diskVars

(* A callback that leaves the queue and its attempt alone.                 *)
LEMMA QueueStays ==
    ASSUME RouteInv, UNCHANGED queueVars,
           \A e \in Entries : out[e] # "new" => out'[e] # "new"
    PROVE  Pumped(current)
<1>1. \A c \in children : c.tok[1] \in Entries /\ ChildInv(c) /\ out[c.tok[1]] # "new"
  BY DEF RouteInv, JournalTypes, Children, Tokens, AskedInv
<1>2. /\ queue' = queue /\ active' = active /\ attempts' = attempts
      /\ current' = current /\ children' = children
  BY DEF queueVars
<1>3. \A k \in 1 .. Len(queue) : queue[k] \in Entries
  BY DEF RouteInv, QueueTypes
<1> QED
  BY <1>1, <1>2, <1>3
     DEF Pumped, RouteInv, QueueTypes, JournalTypes, AskedInv, ProcessInv

(* The next entry is a new one.                                            *)
LEMMA NextIsNew ==
    ASSUME RouteInv, NextEntry \in Entries
    PROVE  /\ out[NextEntry] = "new"
           /\ \E n \in Nat : {e \in Entries : out[e] # "new" \/ e = NextEntry} = 1 .. n
           /\ \A e \in Entries : out[e] # "new" => e < NextEntry
<1>1. PICK n \in Nat : {e \in Entries : out[e] # "new"} = 1 .. n
  BY DEF RouteInv, AskedInv
<1>2. Cardinality(1 .. n) = n
  BY FS_Interval
<1>3. NextEntry = n + 1
  BY <1>1, <1>2 DEF NextEntry
<1> HIDE DEF NextEntry
<1>4. NextEntry \notin 1 .. n
  BY <1>3
<1>5. out[NextEntry] = "new"
  BY <1>1, <1>4
<1>6. {e \in Entries : out[e] # "new" \/ e = NextEntry} = 1 .. (n + 1)
  BY <1>1, <1>3
<1>7. \A e \in Entries : out[e] # "new" => e \in 1 .. n
  BY <1>1
<1> QED
  BY <1>3, <1>5, <1>6, <1>7

(* A new entry keeps the invariant.                                        *)
LEMMA EnqueueKeeps ==
    ASSUME RouteInv, NEW o, Enqueue(o)
    PROVE  RouteInv'
<1> DEFINE n == NextEntry
<1>1. /\ n \in Entries /\ out[n] = "new" /\ \A e \in Entries : out[e] # "new" => e # n
      /\ \E m \in Nat : {e \in Entries : out[e] # "new" \/ e = n} = 1 .. m
  BY NextIsNew DEF Enqueue
<1>2. PICK r : req' = [req EXCEPT ![n] = r] /\ r \in Requests
  <2>1. o \in [kind : Kinds, id : Ids, digest : Digests, guarded : BOOLEAN]
    BY <1>1, CatalogAssumption DEF Enqueue
  <2>2. PICK expect \in IF o.guarded THEN Seen ELSE {None} :
            req' = [req EXCEPT ![n] = [kind |-> o.kind, id |-> o.id,
                                       digest |-> o.digest, expect |-> expect]]
    BY DEF Enqueue
  <2>3. [f \in Files |-> {}] \in Catalogs
    BY DEF Catalogs
  <2>4. expect \in Catalogs \cup {None}
    BY <2>2, <2>3 DEF RouteInv, AnswerTypes, Seen
  <2> DEFINE r == [kind |-> o.kind, id |-> o.id, digest |-> o.digest, expect |-> expect]
  <2>5. r \in Requests
    BY <2>1, <2>4 DEF Requests
  <2> QED
    BY <2>2, <2>5
<1>3. /\ UNCHANGED <<diskVars, timers, retry, applyVars, stopVars>>
      /\ \E answer \in {"busy", "waiting"} : out' = [out EXCEPT ![n] = answer]
  BY DEF Enqueue
<1>4. /\ out' \in [Entries -> Settled \cup {"new", "waiting"}]
      /\ \A e \in Entries : out'[e] # "new" <=> out[e] # "new" \/ e = n
      /\ \A e \in Entries : e # n => out'[e] = out[e]
  BY <1>1, <1>3 DEF RouteInv, AnswerTypes, Settled
<1>5. /\ AnswerTypes' /\ StopTypes' /\ timers' \in [Entries -> Nat] /\ retry' \in BOOLEAN
  BY <1>1, <1>2, <1>3, <1>4
     DEF RouteInv, AnswerTypes, StopTypes, QueueTypes, applyVars, stopVars
<1>6. /\ \A e \in Entries : out[e] # "new" => req'[e] = req[e] /\ out'[e] # "new"
      /\ \A e \in Entries : out'[e] # "new" => req'[e] \in Requests
      /\ \A e \in Entries : timers'[e] > 0 => out'[e] # "new"
  BY <1>1, <1>2, <1>3, <1>4 DEF RouteInv, AskedInv, AnswerTypes
<1>7. \E m \in Nat : {e \in Entries : out'[e] # "new"} = 1 .. m
  BY <1>1, <1>4
<1>8. CASE Full
  <2>1. UNCHANGED queueVars
    BY <1>8 DEF Enqueue
  <2>2. Pumped(current)
    BY <1>6, <2>1, QueueStays
  <2>3. StopInv'
    BY <1>3, <2>1 DEF RouteInv, StopInv, stopVars, queueVars, In
  <2> QED
    BY <1>3, <1>5, <1>6, <1>7, <2>2, <2>3, CallbackKeeps
<1>9. CASE ~Full
  <2>1. Pump(active, Append(queue, n), current, retry)
    BY <1>9 DEF Enqueue
  <2>2. /\ Append(queue, n) \in Seq(Entries) /\ active \in Entries \cup {None}
        /\ current \in Attempts \cup {None}
    BY <1>1 DEF RouteInv, QueueTypes
  <2>3. \A k \in 1 .. Len(Append(queue, n)) : out'[Append(queue, n)[k]] # "new"
    <3>1. ASSUME NEW k \in 1 .. Len(Append(queue, n))
          PROVE  Append(queue, n)[k] = n \/ (k \in 1 .. Len(queue) /\ Append(queue, n)[k] = queue[k])
      <4>1. queue \in Seq(Entries)
        BY DEF RouteInv, QueueTypes
      <4> HIDE DEF n
      <4> QED
        BY ONLY <3>1, <4>1
    <3>2. \A k \in 1 .. Len(queue) : queue[k] \in Entries /\ out[queue[k]] # "new"
      BY DEF RouteInv, QueueTypes, AskedInv
    <3> QED
      BY <1>1, <1>4, <3>1, <3>2
  <2>4. active # None => out'[active] # "new"
    BY <1>4, <2>2 DEF RouteInv, AskedInv
  <2> HIDE DEF n
  <2>5. Pumped(current)
    BY <1>6, <2>1, <2>2, <2>3, <2>4, PumpKeeps
  <2>6. StopInv'
    BY <1>3, <2>5 DEF RouteInv, StopInv, stopVars, Pumped, In
  <2> QED
    BY <1>3, <1>5, <1>6, <1>7, <2>5, <2>6, CallbackKeeps
<1> QED
  BY <1>8, <1>9

(* failEntry() and the pump() that follows.                                *)
LEMMA FailKeeps ==
    ASSUME RouteInv, NEW e \in Entries, NEW err, NEW cur \in Attempts \cup {None},
           cur = current \/ (cur = None /\ Running = {}), FailEntry(e, err, cur)
    PROVE  /\ Pumped(cur) /\ timers' \in [Entries -> Nat] /\ retry' \in BOOLEAN
           /\ out' \in [Entries -> Settled \cup {"new", "waiting"}]
           /\ \A f \in Entries : out'[f] = "new" <=> out[f] = "new"
           /\ \A f \in Entries : timers'[f] > 0 => out'[f] # "new"
<1>1. /\ queue \in Seq(Entries) /\ active \in Entries \cup {None} /\ None \notin Entries
      /\ \A k \in 1 .. Len(queue) : queue[k] \in Entries /\ out[queue[k]] # "new"
      /\ active # None => out[active] # "new"
      /\ out \in [Entries -> Settled \cup {"new", "waiting"}]
      /\ timers \in [Entries -> Nat] /\ retry \in BOOLEAN
      /\ \A f \in Entries : timers[f] > 0 => out[f] # "new"
  BY JournalAssumption DEF RouteInv, QueueTypes, AskedInv, AnswerTypes
<1>2. ASSUME NEW a \in {active, None}, NEW rt, Pump(a, queue, cur, rt),
             \A f \in Entries : out'[f] = "new" <=> out[f] = "new"
      PROVE  Pumped(cur)
  BY <1>1, <1>2, PumpKeeps
<1>3. CASE stopped \/ active # e
  <2>1. Pump(active, queue, cur, retry) /\ UNCHANGED <<timers, retry, out>>
    BY <1>3 DEF FailEntry
  <2> QED
    BY <1>1, <1>2, <2>1
<1>4. CASE ~stopped /\ active = e /\ err # "conflict" /\ attempts[e] < MaxAttempts
  <2>1. /\ timers' = [timers EXCEPT ![e] = @ + 1] /\ retry' = TRUE /\ out' = out
        /\ Pump(active, queue, cur, TRUE)
    BY <1>4 DEF FailEntry
  <2>2. out[e] # "new"
    BY <1>1, <1>4
  <2>3. timers' \in [Entries -> Nat] /\ \A f \in Entries : timers'[f] > 0 => f = e \/ timers[f] > 0
    BY <1>1, <2>1
  <2> QED
    BY <1>1, <1>2, <2>1, <2>2, <2>3
<1>5. CASE /\ ~stopped /\ active = e
           /\ ~(err # "conflict" /\ attempts[e] < MaxAttempts)
  <2>1. PICK answer \in {"conflict", "failed"} :
            /\ out' = [out EXCEPT ![e] = answer] /\ UNCHANGED <<timers, retry>>
            /\ Pump(None, queue, cur, retry)
    BY <1>5 DEF FailEntry
  <2>2. out[e] # "new"
    BY <1>1, <1>5
  <2>3. /\ out' \in [Entries -> Settled \cup {"new", "waiting"}]
        /\ \A f \in Entries : out'[f] = "new" <=> out[f] = "new"
    BY <1>1, <2>1, <2>2 DEF Settled
  <2> QED
    BY <1>1, <1>2, <2>1, <2>3
<1> QED
  BY <1>3, <1>4, <1>5

(* A retry timer fires.                                                    *)
LEMMA RetryKeeps ==
    ASSUME RouteInv, NEW e \in Entries, RetryFires(e)
    PROVE  RouteInv'
<1>1. /\ UNCHANGED <<diskVars, req, applyVars, out, stopVars>>
      /\ timers' = [timers EXCEPT ![e] = @ - 1] /\ timers[e] > 0 /\ retry' = FALSE
  BY DEF RetryFires
<1>2. /\ timers' \in [Entries -> Nat] /\ retry' \in BOOLEAN /\ out[e] # "new"
      /\ \A f \in Entries : timers'[f] > 0 => out'[f] # "new"
  <2>1. timers \in [Entries -> Nat] /\ \A f \in Entries : timers[f] > 0 => out[f] # "new"
    BY DEF RouteInv, QueueTypes, AskedInv
  <2>2. timers' \in [Entries -> Nat] /\ \A f \in Entries : timers'[f] > 0 => timers[f] > 0
    BY <1>1, <2>1
  <2> QED
    BY <1>1, <2>1, <2>2
<1>3. CASE stopped \/ hardBlocked \/ current # None
  <2>1. UNCHANGED queueVars
    BY <1>3 DEF RetryFires
  <2>2. Pumped(current)
    BY <1>1, <2>1, QueueStays
  <2>3. StopInv' /\ StopTypes'
    BY <1>1, <2>1 DEF RouteInv, StopInv, StopTypes, stopVars, queueVars, In
  <2> QED
    BY <1>1, <1>2, <2>2, <2>3, AnswerKeeps DEF RouteInv, AnswerTypes, applyVars
<1>4. CASE ~(stopped \/ hardBlocked \/ current # None)
  <2>1. Launch(e, active, queue, None) /\ Running = {}
    BY <1>4, NobodyRuns DEF RetryFires, RouteInv
  <2>2. Attempted(e) /\ active' = active /\ queue' = queue /\ attempts' \in [Entries -> Nat]
    BY <2>1, LaunchAttempts
  <2>3. PICK c \in Children : /\ children' = {c} /\ ChildInv(c)
                              /\ c.tok = <<e, attempts[e] + 1>> /\ c.pc = "recover"
    BY <2>2 DEF Attempted
  <2>4. /\ current' \in Attempts /\ current' # None /\ current'.phase = "running"
        /\ current'.tok = <<e, attempts[e] + 1>>
    BY <2>2 DEF Attempted
  <2>5. Pumped(current)
    BY <1>1, <1>2, <1>4, <2>2, <2>3, <2>4
       DEF Pumped, ProcessInv, RouteInv, QueueTypes, AskedInv
  <2>6. StopInv' /\ StopTypes'
    BY <1>1, <1>4, <2>4 DEF RouteInv, StopInv, StopTypes, stopVars, In
  <2> QED
    BY <1>1, <1>2, <2>5, <2>6, AnswerKeeps DEF RouteInv, AnswerTypes, applyVars
<1> QED
  BY <1>3, <1>4

(* A child that is dropped, and the attempt over or in another phase.      *)
LEMMA AttemptChanges ==
    ASSUME RouteInv, UNCHANGED <<diskVars, req, queue, active, attempts, timers, retry>>,
           current' \in Attempts \cup {None},
           \/ children' = {}
           \/ /\ children' = children /\ current # None /\ current' # None
              /\ current'.tok = current.tok
           \/ \E c \in Children : /\ children' = {c} /\ current' = current /\ current # None
                                  /\ c.tok = current.tok /\ ChildInv(c) /\ c.pc = "done"
                                  /\ out[c.tok[1]] # "new",
           applying' \subseteq [tok : Tokens, snap : Catalogs],
           latest' \in Catalogs \cup {None},
           out' \in [Entries -> Settled \cup {"new", "waiting"}],
           \A e \in Entries : out'[e] = "new" <=> out[e] = "new",
           StopTypes', StopInv'
    PROVE  RouteInv'
<1>1. \A c \in children : c.tok[1] \in Entries /\ ChildInv(c) /\ out[c.tok[1]] # "new"
  BY DEF RouteInv, JournalTypes, Children, Tokens, AskedInv
<1>2. \A c \in Children : c.tok[1] \in Entries
  BY DEF Children, Tokens
<1>3. \A k \in 1 .. Len(queue) : queue[k] \in Entries /\ out[queue[k]] # "new"
  BY DEF RouteInv, QueueTypes, AskedInv
<1>4. ProcessInv'
  BY DEF RouteInv, ProcessInv
<1>5. \A c \in children' : /\ c \in Children /\ ChildInv(c) /\ out'[c.tok[1]] # "new"
                          /\ (c \in children \/ c.pc = "done")
  BY <1>1, <1>2 DEF RouteInv, JournalTypes
<1>6. JournalTypes' /\ QueueTypes' /\ AnswerTypes'
  BY <1>5 DEF RouteInv, JournalTypes, QueueTypes, AnswerTypes, diskVars
<1>7. (\A c \in children : ChildInv(c))'
  BY <1>5
<1>8. /\ commits' = commits /\ receipt' = receipt
      /\ DOMAIN commits = 1 .. Len(commits) /\ \A k \in 1 .. Len(commits) : commits[k] \in Entries
  BY DEF diskVars, RouteInv, JournalTypes
<1>9. AskedInv'
  <2>1. \E n \in Nat : {e \in Entries : out'[e] # "new"} = 1 .. n
    BY DEF RouteInv, AskedInv
  <2>2. active' # None => out'[active'] # "new"
    BY DEF RouteInv, QueueTypes, AskedInv
  <2>3. (\A e \in Entries : out[e] # "new" => req[e] \in Requests)'
    BY DEF RouteInv, AskedInv
  <2>4. (\A e \in Entries : timers[e] > 0 => out[e] # "new")'
    BY DEF RouteInv, AskedInv
  <2>5. (\A k \in 1 .. Len(commits) : out[commits[k]] # "new")'
    BY <1>8 DEF RouteInv, AskedInv
  <2>6. (\A k \in 1 .. Len(queue) : out[queue[k]] # "new")'
    BY <1>3
  <2>7. (\A c \in children : out[c.tok[1]] # "new")'
    BY <1>5
  <2> QED
    BY <2>1, <2>2, <2>3, <2>4, <2>5, <2>6, <2>7 DEF AskedInv
<1>10. ReceiptInv' /\ CommitsOnce'
  BY <1>5, <1>8 DEF RouteInv, ReceiptInv, CommitsOnce, Request
<1> QED
  BY <1>4, <1>6, <1>7, <1>9, <1>10 DEF RouteInv

(* The deadline and the error of a child: the attempt is being cancelled.  *)
LEMMA CleanupKeeps ==
    ASSUME RouteInv, In("running"), NEW err \in {"conflict", "failed"}, Cleanup(err)
    PROVE  RouteInv'
<1>1. /\ current \in Attempts /\ current # None /\ ~stopped /\ stopping = "no"
  BY DEF RouteInv, QueueTypes, StopInv, In
<1>2. /\ current' \in Attempts /\ current'.tok = current.tok /\ current'.phase = "cleaning"
  BY <1>1 DEF Cleanup, Attempts
<1>3. current' # None
  BY <1>2, CatalogAssumption
<1>4. StopInv' /\ StopTypes'
  BY <1>1, <1>2 DEF Cleanup, RouteInv, StopInv, StopTypes, stopVars, In
<1> QED
  BY <1>1, <1>2, <1>3, <1>4, AttemptChanges
     DEF Cleanup, RouteInv, AnswerTypes, applyVars, diskVars

(* The attempt succeeds.                                                   *)
LEMMA ResultKeeps ==
    ASSUME RouteInv, NEW c \in Result, ResultOk(c)
    PROVE  RouteInv'
<1>1. /\ c \in children /\ ~Alive(c) /\ c.tok \in Tokens /\ c.ans \in Successes
      /\ c.snap \in Catalogs /\ ~stopped /\ stopping = "no"
  BY DEF RouteInv, JournalTypes, Children, ResultOk, Succeeded, Result, ChildInv, StopInv
<1>2. children' = {} /\ current' = None
  BY <1>1, KeptChildren DEF ResultOk, Running, RouteInv, ProcessInv
<1>3. applying' \subseteq [tok : Tokens, snap : Catalogs]
  BY <1>1 DEF ResultOk, RouteInv, AnswerTypes
<1>4. StopInv' /\ StopTypes'
  BY <1>1, <1>2 DEF ResultOk, RouteInv, StopInv, StopTypes, stopVars, In
<1> QED
  BY <1>2, <1>3, <1>4, AttemptChanges DEF ResultOk, RouteInv, AnswerTypes, diskVars

(* The kill takes effect.                                                  *)
LEMMA KilledKeeps ==
    ASSUME RouteInv, NEW c \in Running, Killed(c)
    PROVE  RouteInv'
<1> DEFINE d == [c EXCEPT !.pc = "done", !.ans = "failed", !.base = None, !.saved = None]
<1>1. /\ c \in Children /\ c \in children /\ children = {c} /\ current # None
      /\ c.tok = current.tok /\ out[c.tok[1]] # "new"
  BY DEF RouteInv, JournalTypes, Running, Killed, AskedInv, ProcessInv
<1>2. d \in Children /\ d.tok = c.tok /\ d.pc = "done" /\ d.ans = "failed"
  BY <1>1 DEF Children, Answers
<1>3. children' = {d}
  BY <1>1 DEF Killed, Become
<1> HIDE DEF d
<1>4. ChildInv(d)
  BY <1>2 DEF ChildInv, Successes
<1>5. UNCHANGED <<diskVars, req, queue, active, attempts, current, timers, retry, applyVars,
                  out, stopVars>>
  BY DEF Killed
<1>6. StopInv' /\ StopTypes'
  BY <1>5 DEF RouteInv, StopInv, StopTypes, stopVars, In
<1> QED
  BY <1>1, <1>2, <1>3, <1>4, <1>5, <1>6, AttemptChanges
     DEF RouteInv, QueueTypes, AnswerTypes, applyVars, diskVars

(* The cancellation of a failed attempt, confirmed or not, and a late exit.*)
LEMMA CancelKeeps ==
    ASSUME RouteInv, CancelConfirmed \/ CancelUnconfirmed \/ LateExit
    PROVE  RouteInv'
<1>1. /\ current \in Attempts /\ current # None /\ EntryOf(current.tok) \in Entries
      /\ None \notin Attempts
  BY CatalogAssumption
     DEF CancelConfirmed, CancelUnconfirmed, LateExit, In, RouteInv, QueueTypes, Attempts,
         Tokens, EntryOf
<1>2. CASE CancelConfirmed
  <2>1. Running = {} /\ FailEntry(EntryOf(current.tok), current.err, None)
    BY <1>2, NobodyRuns DEF CancelConfirmed, RouteInv
  <2>2. /\ Pumped(None) /\ timers' \in [Entries -> Nat] /\ retry' \in BOOLEAN
        /\ out' \in [Entries -> Settled \cup {"new", "waiting"}]
        /\ \A f \in Entries : out'[f] = "new" <=> out[f] = "new"
        /\ \A f \in Entries : timers'[f] > 0 => out'[f] # "new"
    BY <1>1, <2>1, FailKeeps
  <2>3. /\ UNCHANGED <<diskVars, req, applyVars, hardBlocked, stopped, stopError>>
        /\ stopping' = IF stopping = "cleanup" THEN "apply" ELSE stopping
        /\ In("cleaning")
    BY <1>2 DEF CancelConfirmed
  <2>4. StopInv' /\ StopTypes'
    BY <2>2, <2>3 DEF Pumped, RouteInv, StopInv, StopTypes, In
  <2> QED
    BY <2>2, <2>3, <2>4, AnswerKeeps DEF RouteInv, AnswerTypes, applyVars
<1>3. CASE CancelUnconfirmed
  <2>1. /\ current' \in Attempts /\ current'.tok = current.tok /\ current'.phase = "unconfirmed"
        /\ current' # None
    BY <1>1, <1>3 DEF CancelUnconfirmed, Attempts
  <2>2. /\ UNCHANGED <<diskVars, req, attempts, children, timers, retry, applyVars, stopped>>
        /\ In("cleaning")
    BY <1>3 DEF CancelUnconfirmed
  <2>3. CASE stopped
    <3>1. /\ stopError' = TRUE /\ stopping' = "apply"
          /\ UNCHANGED <<hardBlocked, active, queue, out>>
      BY <1>3, <2>3 DEF CancelUnconfirmed
    <3>2. StopInv' /\ StopTypes'
      BY <2>1, <2>2, <2>3, <3>1 DEF RouteInv, StopInv, StopTypes, In
    <3> QED
      BY <1>1, <2>1, <2>2, <3>1, <3>2, AttemptChanges
         DEF RouteInv, AnswerTypes, applyVars, diskVars
  <2>4. CASE ~stopped
    <3>1. /\ hardBlocked' = TRUE /\ active' = None /\ queue' = <<>>
          /\ out' \in [Entries -> Settled \cup {"new", "waiting"}]
          /\ \A e \in Entries : out'[e] = "new" <=> out[e] = "new"
          /\ UNCHANGED <<stopError, stopping>>
      BY <1>3, <2>4 DEF CancelUnconfirmed, RouteInv, AnswerTypes, Settled
    <3>2. StopInv' /\ StopTypes'
      BY <2>1, <2>2, <2>4, <3>1 DEF RouteInv, StopInv, StopTypes, In
    <3>3. ProcessInv'
      BY <1>1, <2>1, <2>2 DEF RouteInv, ProcessInv
    <3>4. \A c \in children : c \in Children /\ c.tok[1] \in Entries /\ ChildInv(c)
                              /\ out[c.tok[1]] # "new"
      BY DEF RouteInv, JournalTypes, Children, Tokens, AskedInv
    <3>5. /\ queue' \in Seq(Entries) /\ attempts' \in [Entries -> Nat]
          /\ \A k \in 1 .. Len(queue') : out'[queue'[k]] # "new"
      BY <2>2, <3>1 DEF RouteInv, QueueTypes
    <3>6. /\ children' \subseteq Children
          /\ \A c \in children' : ChildInv(c) /\ out'[c.tok[1]] # "new" /\ c \in children
      BY <2>2, <3>1, <3>4
    <3>7. PICK v : v = current'
      OBVIOUS
    <3>8. Pumped(v)
      BY <2>1, <3>1, <3>3, <3>5, <3>6, <3>7 DEF Pumped
    <3>9. \A e \in Entries : timers'[e] > 0 => out'[e] # "new"
      BY <2>2, <3>1 DEF RouteInv, AskedInv
    <3> QED
      BY <2>2, <3>1, <3>2, <3>8, <3>9, AnswerKeeps
         DEF RouteInv, AnswerTypes, QueueTypes, applyVars
  <2> QED
    BY <2>3, <2>4
<1>4. CASE LateExit
  <2>1. children' = {} /\ current' = None
    BY <1>4, NobodyRuns, KeptChildren DEF LateExit, RouteInv
  <2>2. UNCHANGED <<diskVars, req, queue, active, attempts, timers, retry, applyVars, out, stopVars>>
    BY <1>4 DEF LateExit
  <2>3. StopInv' /\ StopTypes'
    BY <2>1, <2>2 DEF RouteInv, StopInv, StopTypes, stopVars, In
  <2> QED
    BY <2>1, <2>2, <2>3, AttemptChanges DEF RouteInv, AnswerTypes, applyVars, diskVars
<1> QED
  BY <1>2, <1>3, <1>4

(* apply() settles.                                                        *)
LEMMA AppliedKeeps ==
    ASSUME RouteInv, NEW x \in applying, ApplyDone(x) \/ ApplyFails(x)
    PROVE  RouteInv'
<1>1. /\ x.tok \in Tokens /\ x.snap \in Catalogs
      /\ applying' \subseteq [tok : Tokens, snap : Catalogs]
      /\ latest' \in Catalogs \cup {None}
  BY DEF RouteInv, AnswerTypes, ApplyDone, ApplyFails, Landed
<1>2. /\ UNCHANGED <<diskVars, req, stopVars>>
      /\ active \in Entries \cup {None} /\ current \in Attempts \cup {None}
      /\ queue \in Seq(Entries) /\ timers \in [Entries -> Nat] /\ retry \in BOOLEAN
      /\ out \in [Entries -> Settled \cup {"new", "waiting"}]
  BY DEF ApplyDone, ApplyFails, RouteInv, QueueTypes, AnswerTypes
<1>3. Pumped(current) => StopInv' /\ StopTypes'
  BY <1>2 DEF RouteInv, StopInv, StopTypes, stopVars, Pumped, In
<1>4. \A e \in Entries : timers[e] > 0 => out[e] # "new"
  BY DEF RouteInv, AskedInv
<1>5. EntryOf(x.tok) \in Entries /\ None \notin Entries
  BY <1>1, JournalAssumption DEF Tokens, EntryOf
<1>6. CASE UNCHANGED <<queueVars, out, timers, retry>>
  <2>1. Pumped(current)
    BY <1>6, QueueStays
  <2> QED
    BY <1>1, <1>2, <1>3, <1>4, <1>6, <2>1, AnswerKeeps
<1>7. CASE ApplyDone(x) /\ ~stopped /\ active = EntryOf(x.tok)
  <2>1. /\ out' = [out EXCEPT ![active] = Answer(active)] /\ Pump(None, queue, current, retry)
        /\ UNCHANGED <<timers, retry>>
    BY <1>7 DEF ApplyDone
  <2>2. active \in Entries /\ out[active] # "new"
    BY <1>5, <1>7 DEF RouteInv, AskedInv
  <2>3. /\ out' \in [Entries -> Settled \cup {"new", "waiting"}]
        /\ \A e \in Entries : out'[e] = "new" <=> out[e] = "new"
    BY <1>1, <1>2, <2>1, <2>2 DEF Settled, Answer
  <2>4. \A k \in 1 .. Len(queue) : queue[k] \in Entries /\ out'[queue[k]] # "new"
    <3>1. \A k \in 1 .. Len(queue) : queue[k] \in Entries /\ out[queue[k]] # "new"
      BY DEF RouteInv, QueueTypes, AskedInv
    <3> QED
      BY <2>3, <3>1
  <2>5. Pumped(current)
    BY <1>2, <2>1, <2>3, <2>4, PumpKeeps
  <2> QED
    BY <1>1, <1>2, <1>3, <1>4, <2>1, <2>3, <2>5, AnswerKeeps
<1>8. CASE ApplyFails(x) /\ ~stopped /\ active = EntryOf(x.tok)
  <2>1. FailEntry(active, "failed", current) /\ active \in Entries
    BY <1>5, <1>8 DEF ApplyFails
  <2>2. /\ Pumped(current) /\ timers' \in [Entries -> Nat] /\ retry' \in BOOLEAN
        /\ out' \in [Entries -> Settled \cup {"new", "waiting"}]
        /\ \A f \in Entries : out'[f] = "new" <=> out[f] = "new"
        /\ \A f \in Entries : timers'[f] > 0 => out'[f] # "new"
    BY <1>2, <2>1, FailKeeps
  <2> QED
    BY <1>1, <1>2, <1>3, <2>2, AnswerKeeps
<1> QED
  BY <1>6, <1>7, <1>8 DEF ApplyDone, ApplyFails

(* stop(), up to what it waits for, what that does, and its end.           *)
LEMMA StopKeeps ==
    ASSUME RouteInv, Stop \/ StopCancelled \/ StopEnds
    PROVE  RouteInv'
<1>1. /\ current \in Attempts \cup {None} /\ None \notin Attempts
      /\ \A a \in Attempts : [a EXCEPT !.phase = "cancelling"] \in Attempts
      /\ \A a \in Attempts : [a EXCEPT !.phase = "unconfirmed"] \in Attempts
  BY CatalogAssumption DEF RouteInv, QueueTypes, Attempts
<1>2. CASE Stop
  <2>1. /\ UNCHANGED <<diskVars, req, attempts, children, applyVars, hardBlocked>>
        /\ stopped' = TRUE /\ retry' = FALSE /\ timers' = [e \in Entries |-> 0]
        /\ active' = None /\ queue' = <<>>
        /\ stopping \in {"no", "failed"}
    BY <1>2 DEF Stop
  <2>2. /\ current' \in Attempts \cup {None}
        /\ current = None => current' = None
        /\ current # None => current' # None /\ current'.tok = current.tok
    BY <1>1, <1>2 DEF Stop, In, Attempts
  <2>3. /\ out' \in [Entries -> Settled \cup {"new", "waiting"}]
        /\ \A e \in Entries : out'[e] = "new" <=> out[e] = "new"
    BY <1>2 DEF Stop, RouteInv, AnswerTypes, Settled
  <2>4. /\ stopError' \in BOOLEAN /\ stopping' \in {"cleanup", "cancel", "apply"}
        /\ In("running") => stopping' = "cancel" /\ current'.phase = "cancelling"
        /\ ~In("running") => current' = current
        /\ In("cleaning") => stopping' = "cleanup"
        /\ ~In("running") /\ ~In("cleaning") => stopping' = "apply"
        /\ stopError' = In("unconfirmed")
    BY <1>1, <1>2 DEF Stop, In, Attempts
  <2>5. In("cancelling") => FALSE
    BY <2>1 DEF RouteInv, StopInv
  <2>6. current # None => current.phase \in {"running", "cleaning", "unconfirmed"}
    BY <1>1, <2>5 DEF In, Attempts
  <2>7. StopInv' /\ StopTypes'
    BY <2>1, <2>2, <2>4, <2>5, <2>6 DEF RouteInv, StopInv, StopTypes, In
  <2>8. ProcessInv'
    BY <2>1, <2>2 DEF RouteInv, ProcessInv
  <2>9. \A c \in children : c \in Children /\ c.tok[1] \in Entries /\ ChildInv(c)
                            /\ out[c.tok[1]] # "new"
    BY DEF RouteInv, JournalTypes, Children, Tokens, AskedInv
  <2>10. /\ queue' \in Seq(Entries) /\ attempts' \in [Entries -> Nat]
         /\ \A k \in 1 .. Len(queue') : out'[queue'[k]] # "new"
         /\ children' \subseteq Children
         /\ \A c \in children' : ChildInv(c) /\ out'[c.tok[1]] # "new" /\ c \in children
    <3>1. queue' \in Seq(Entries) /\ attempts' \in [Entries -> Nat]
      BY <2>1 DEF RouteInv, QueueTypes
    <3>2. Len(queue') = 0
      BY <2>1
    <3> QED
      BY <2>1, <2>3, <2>9, <3>1, <3>2
  <2>11. PICK v : v = current'
    OBVIOUS
  <2>12. Pumped(v)
    BY <2>1, <2>2, <2>8, <2>10, <2>11 DEF Pumped
  <2>13. timers' \in [Entries -> Nat] /\ \A e \in Entries : timers'[e] > 0 => out'[e] # "new"
    BY <2>1
  <2> QED
    BY <2>1, <2>3, <2>7, <2>12, <2>13, AnswerKeeps DEF RouteInv, AnswerTypes, applyVars
<1>3. CASE StopCancelled
  <2>1. /\ current \in Attempts /\ current # None /\ current.phase = "cancelling"
        /\ stopping = "cancel" /\ stopping' = "apply" /\ stopped
    BY <1>1, <1>3 DEF StopCancelled, In, RouteInv, StopInv
  <2>2. UNCHANGED <<diskVars, req, queue, active, attempts, timers, retry, applyVars, out,
                    hardBlocked, stopped>>
    BY <1>3 DEF StopCancelled
  <2>3. CASE Gone(current.tok)
    <3>1. children' = {} /\ current' = None /\ stopError' = stopError
      BY <1>3, <2>3, NobodyRuns, KeptChildren DEF StopCancelled, RouteInv
    <3>2. StopInv' /\ StopTypes'
      BY <2>1, <2>2, <3>1 DEF RouteInv, StopInv, StopTypes, In
    <3> QED
      BY <2>2, <3>1, <3>2, AttemptChanges DEF RouteInv, AnswerTypes, applyVars, diskVars
  <2>4. CASE ~Gone(current.tok)
    <3>1. /\ current' \in Attempts /\ current' # None /\ current'.tok = current.tok
          /\ current'.phase = "unconfirmed" /\ stopError' = TRUE /\ children' = children
      BY <1>1, <1>3, <2>1, <2>4 DEF StopCancelled, Attempts
    <3>2. StopInv' /\ StopTypes'
      BY <2>1, <2>2, <3>1 DEF RouteInv, StopInv, StopTypes, In
    <3> QED
      BY <2>1, <2>2, <3>1, <3>2, AttemptChanges DEF RouteInv, AnswerTypes, applyVars, diskVars
  <2> QED
    BY <2>3, <2>4
<1>4. CASE StopEnds
  <2>1. UNCHANGED <<diskVars, req, queueVars, timers, retry, applyVars, out, hardBlocked,
                    stopped, stopError>>
    BY <1>4 DEF StopEnds, queueVars
  <2>2. StopInv' /\ StopTypes'
    BY <1>4, <2>1 DEF StopEnds, RouteInv, StopInv, StopTypes, queueVars, In
  <2>3. Pumped(current)
    BY <2>1, QueueStays
  <2>4. \A e \in Entries : timers'[e] > 0 => out'[e] # "new"
    BY <2>1 DEF RouteInv, AskedInv
  <2> QED
    BY <2>1, <2>2, <2>3, <2>4, AnswerKeeps DEF RouteInv, AnswerTypes, QueueTypes, applyVars
<1> QED
  BY <1>2, <1>3, <1>4

(* The machine goes down.                                                  *)
LEMMA RestartKeeps ==
    ASSUME RouteInv, Restart
    PROVE  RouteInv'
<1>1. /\ UNCHANGED <<diskVars, req>> /\ children' = {} /\ queue' = <<>> /\ active' = None
      /\ attempts' = [e \in Entries |-> 0] /\ current' = None
      /\ timers' = [e \in Entries |-> 0] /\ retry' = FALSE /\ applying' = {} /\ latest' = None
      /\ hardBlocked' = FALSE /\ stopped' = FALSE /\ stopping' = "no" /\ stopError' = FALSE
  BY DEF Restart
<1>2. /\ out' \in [Entries -> Settled \cup {"new", "waiting"}]
      /\ \A e \in Entries : out'[e] = "new" <=> out[e] = "new"
  BY DEF Restart, RouteInv, AnswerTypes, Settled
<1>3. Pumped(None)
  BY <1>1 DEF Pumped, ProcessInv
<1>4. StopInv' /\ StopTypes'
  BY <1>1 DEF StopInv, StopTypes, In
<1>5. timers' \in [Entries -> Nat] /\ \A e \in Entries : timers'[e] > 0 => out'[e] # "new"
  BY <1>1
<1> QED
  BY <1>1, <1>2, <1>3, <1>4, <1>5, AnswerKeeps

-----------------------------------------------------------------------------
(* The invariant holds at the start.                                       *)
LEMMA RouteInit == Init => RouteInv
<1> SUFFICES ASSUME Init PROVE RouteInv
  OBVIOUS
<1>1. /\ children = {} /\ commits = <<>> /\ queue = <<>> /\ active = None /\ current = None
      /\ applying = {} /\ latest = None /\ retry = FALSE
      /\ hardBlocked = FALSE /\ stopped = FALSE /\ stopping = "no" /\ stopError = FALSE
  BY DEF Init, JournalInit, ManagerInit
<1>2. JournalTypes
  BY <1>1 DEF Init, JournalInit, JournalTypes, Catalogs, Journals
<1>3. QueueTypes
  <2>1. queue \in Seq(Entries)
    BY <1>1
  <2>2. attempts \in [Entries -> Nat] /\ timers \in [Entries -> Nat]
    BY DEF Init, ManagerInit
  <2> QED
    BY <1>1, <2>1, <2>2 DEF QueueTypes
<1>4. AnswerTypes
  BY <1>1 DEF Init, AnswerTypes
<1>5. StopTypes /\ StopInv
  BY <1>1 DEF StopTypes, StopInv, In
<1>6. AskedInv
  <2>1. /\ \A e \in Entries : out[e] = "new"
        /\ \A e \in Entries : timers[e] = 0
    BY DEF Init, ManagerInit
  <2>2. {e \in Entries : out[e] # "new"} = 1 .. 0 /\ 0 \in Nat
    BY <2>1
  <2> QED
    BY <1>1, <2>1, <2>2 DEF AskedInv
<1>7. ProcessInv /\ ReceiptInv /\ CommitsOnce /\ \A c \in children : ChildInv(c)
  BY <1>1 DEF ProcessInv, ReceiptInv, CommitsOnce
<1> QED
  BY <1>2, <1>3, <1>4, <1>5, <1>6, <1>7 DEF RouteInv

(* Every step keeps it.                                                    *)
LEMMA RouteStep == RouteInv /\ [Next]_vars => RouteInv'
<1> SUFFICES ASSUME RouteInv, [Next]_vars PROVE RouteInv'
  OBVIOUS
<1>1. ASSUME NEW o, Enqueue(o) PROVE RouteInv'
  BY <1>1, EnqueueKeeps
<1>2. CASE ChildMove
  BY <1>2, ChildKeeps
<1>3. ASSUME NEW c \in Running, Killed(c) PROVE RouteInv'
  BY <1>3, KilledKeeps
<1>4. CASE Timeout
  BY <1>4, CleanupKeeps DEF Timeout
<1>5. ASSUME NEW c \in Result, ResultError(c) PROVE RouteInv'
  <2>1. In("running")
    BY DEF Result
  <2>2. Cleanup("conflict") \/ Cleanup("failed")
    BY <1>5 DEF ResultError
  <2> QED
    BY <2>1, <2>2, CleanupKeeps
<1>6. ASSUME NEW c \in Result, ResultOk(c) PROVE RouteInv'
  BY <1>6, ResultKeeps
<1>7. CASE CancelConfirmed \/ CancelUnconfirmed \/ LateExit
  BY <1>7, CancelKeeps
<1>8. ASSUME NEW e \in Entries, RetryFires(e) PROVE RouteInv'
  BY <1>8, RetryKeeps
<1>9. ASSUME NEW x \in applying, ApplyDone(x) \/ ApplyFails(x) PROVE RouteInv'
  BY <1>9, AppliedKeeps
<1>10. CASE Stop \/ StopCancelled \/ StopEnds
  BY <1>10, StopKeeps
<1>11. CASE Restart
  BY <1>11, RestartKeeps
<1>12. CASE UNCHANGED vars
  <2>1. UNCHANGED <<diskVars, req, queueVars, timers, retry, applying, latest, out, stopVars>>
    BY <1>12 DEF vars, applyVars
  <2>2. JournalTypes' /\ QueueTypes' /\ AnswerTypes' /\ StopTypes'
    BY <2>1 DEF RouteInv, JournalTypes, QueueTypes, AnswerTypes, StopTypes, diskVars,
                queueVars, stopVars
  <2>3. AskedInv' /\ ReceiptInv' /\ CommitsOnce' /\ (\A c \in children : ChildInv(c))'
    BY <2>1 DEF RouteInv, AskedInv, ReceiptInv, CommitsOnce, ChildInv, Request, diskVars,
                queueVars
  <2>4. StopInv' /\ ProcessInv'
    BY <2>1 DEF RouteInv, StopInv, ProcessInv, In, queueVars, stopVars
  <2> QED
    BY <2>2, <2>3, <2>4 DEF RouteInv
<1>13. CASE Next
  <2>1. CASE Manager
    BY <1>4, <1>5, <1>6, <1>7, <1>8, <1>9, <1>10, <2>1 DEF Manager
  <2> QED
    BY <1>1, <1>2, <1>3, <1>10, <1>11, <1>13, <2>1 DEF Next
<1> QED
  BY <1>12, <1>13

(* The invariant holds.                                                    *)
LEMMA RouteInvHolds == Spec => []RouteInv
  BY RouteInit, RouteStep, PTL DEF Spec

(* The lifecycle, its children and the directory hold values of their      *)
(* types: what routeCatalogStartupLifecycle.ts and the child read back from *)
(* the queue, the journals and the receipts is what they expect, torn      *)
(* config files included, for any number of entries, files and attempts.   *)
THEOREM RouteTypeCorrect == Spec => []RouteTypeOK
<1>1. RouteInv => RouteTypeOK
  <2> SUFFICES ASSUME RouteInv PROVE RouteTypeOK
    OBVIOUS
  <2>1. \A i \in Ids : journal[i] \in Journals
    BY DEF RouteInv, JournalTypes
  <2>2. \A i \in Ids : journal[i] = None \/ (journal[i].digest \in Digests
                                              /\ journal[i].backup \in Catalogs)
    BY <2>1 DEF Journals, Backups
  <2>3. /\ file \in Catalogs
        /\ \A i \in Ids : receipt[i] \in Digests \cup {None}
    BY DEF RouteInv, JournalTypes
  <2>4. /\ \A k \in DOMAIN queue : queue[k] \in Entries
        /\ active = None \/ active \in Entries
    BY DEF RouteInv, QueueTypes
  <2>5. /\ \A x \in applying : x.snap \in Catalogs
        /\ latest = None \/ latest \in Catalogs
        /\ \A e \in Entries : out[e] \in Settled \cup {"new", "waiting"}
    BY DEF RouteInv, AnswerTypes
  <2> QED
    BY <2>2, <2>3, <2>4, <2>5 DEF RouteTypeOK, RouteInv, StopTypes
<1> QED
  BY <1>1, RouteInvHolds, PTL

(* No child works on the directory that the lifecycle does not know of:    *)
(* pump(), startAttempt(), the retry timer, cancel() and stop() together   *)
(* never have two children at work, although a process can outlive its     *)
(* SIGKILL deadline, and a lifecycle that reports "stopped" has none.      *)
THEOREM NoChildIsStray == Spec => []NoStrayChild
<1>1. RouteInv => NoStrayChild
  BY DEF RouteInv, ProcessInv, StopInv, NoStrayChild, OneChild, StoppedIsQuiet, Running
<1> QED
  BY <1>1, RouteInvHolds, PTL

-----------------------------------------------------------------------------
(* Nobody waits for nothing.                                               *)

(* What stop() waits for is there: the cleanup of the attempt that was     *)
(* under way, its own cancel(), or the application that was started last.   *)
StopMoves ==
    /\ stopping = "cleanup" => In("cleaning")
    /\ stopping = "cancel" => In("cancelling")
    /\ flight # None => \E x \in applying : x.tok = flight

(* A child that outlived its kill is waited for by a lifecycle only that is *)
(* stopped or blocked.                                                     *)
AwakeInv == StopMoves /\ (In("unconfirmed") => stopped \/ hardBlocked)

(* A step that leaves stop() alone, and the attempt it waits for.          *)
LEMMA AwakeStays ==
    ASSUME AwakeInv, UNCHANGED <<stopping, stopped, hardBlocked>>,
           flight' # None => \E x \in applying' : x.tok = flight',
           \/ current' = current
           \/ /\ stopping \notin {"cleanup", "cancel"}
              /\ current' = None \/ current'.phase \in {"running", "cleaning"}
    PROVE  AwakeInv'
BY DEF AwakeInv, StopMoves, In

(* pump() of a lifecycle that is not stopped.                              *)
LEMMA PumpAwake ==
    ASSUME RouteInv, NEW a, NEW q, NEW cur, NEW rt, Pump(a, q, cur, rt)
    PROVE  \/ current' = cur
           \/ ~stopped /\ current'.phase = "running"
<1>1. ASSUME NEW e, NEW b, NEW p, Launch(e, b, p, None) PROVE current'.phase = "running"
  BY <1>1 DEF Launch, Token
<1> QED
  BY <1>1, PumpCases DEF MayPump

(* failEntry() and the pump() that follows it.                             *)
LEMMA FailAwake ==
    ASSUME RouteInv, NEW e, NEW err, NEW cur, FailEntry(e, err, cur)
    PROVE  \/ current' = cur
           \/ ~stopped /\ current'.phase = "running"
BY PumpAwake DEF FailEntry

(* Every step keeps what stop() waits for.                                 *)
LEMMA AwakeStep ==
    ASSUME RouteInv, AwakeInv, [Next]_vars
    PROVE  AwakeInv'
<1>1. /\ stopped <=> stopping # "no"
      /\ In("running") => ~stopped
      /\ In("cancelling") => stopping = "cancel"
      /\ current # None => current \in Attempts
      /\ None \notin Attempts
  BY CatalogAssumption DEF RouteInv, StopInv, QueueTypes
<1>2. ASSUME NEW o, Enqueue(o) PROVE AwakeInv'
  <2>1. /\ ~stopped /\ UNCHANGED <<stopping, stopped, hardBlocked, applying, flight>>
        /\ current' = current \/ current'.phase = "running"
    BY <1>2, PumpAwake DEF Enqueue, stopVars, applyVars, queueVars
  <2> QED
    BY <1>1, <2>1, AwakeStays DEF AwakeInv, StopMoves
<1>3. CASE ChildMove \/ (\E c \in Running : Killed(c)) \/ UNCHANGED vars
  <2>1. UNCHANGED <<current, stopping, stopped, hardBlocked, applying, flight>>
    <3>1. CASE ChildMove
      BY <3>1 DEF ChildMove, applyVars, stopVars
    <3>2. ASSUME NEW c \in Running, Killed(c)
          PROVE  UNCHANGED <<current, stopping, stopped, hardBlocked, applying, flight>>
      BY <3>2 DEF Killed, applyVars, stopVars
    <3>3. CASE UNCHANGED vars
      BY <3>3 DEF vars, queueVars, applyVars, stopVars
    <3> QED
      BY <1>3, <3>1, <3>2, <3>3
  <2> QED
    BY <2>1, AwakeStays DEF AwakeInv, StopMoves
<1>4. ASSUME NEW err, In("running"), Cleanup(err) PROVE AwakeInv'
  <2>1. /\ UNCHANGED <<stopping, stopped, hardBlocked, applying, flight>>
        /\ current'.phase = "cleaning"
    BY <1>1, <1>4 DEF Cleanup, applyVars, stopVars, In, Attempts
  <2> QED
    BY <1>1, <1>4, <2>1, AwakeStays DEF AwakeInv, StopMoves
<1>5. ASSUME NEW c \in Result, ResultOk(c) PROVE AwakeInv'
  <2> DEFINE x == [tok |-> c.tok, snap |-> c.snap]
  <2>1. /\ In("running") /\ current' = None /\ UNCHANGED <<stopping, stopped, hardBlocked>>
        /\ x \in applying' /\ flight' = c.tok
    BY <1>5 DEF ResultOk, Result, stopVars
  <2>2. x.tok = flight'
    BY <2>1
  <2> HIDE DEF x
  <2> QED
    BY <1>1, <2>1, <2>2, AwakeStays
<1>6. CASE CancelConfirmed
  <2>1. /\ UNCHANGED <<stopped, hardBlocked, applying, flight>>
        /\ stopping' = IF stopping = "cleanup" THEN "apply" ELSE stopping
        /\ current' = None \/ current'.phase = "running"
        /\ In("cleaning")
    BY <1>6, FailAwake DEF CancelConfirmed, applyVars
  <2> QED
    BY <1>1, <2>1 DEF AwakeInv, StopMoves, In
<1>7. CASE CancelUnconfirmed
  <2>1. /\ UNCHANGED <<stopped, applying, flight>> /\ In("cleaning")
        /\ current'.phase = "unconfirmed"
        /\ IF stopped THEN stopping' = "apply" /\ hardBlocked' = hardBlocked
                      ELSE hardBlocked' /\ stopping' = stopping
    BY <1>1, <1>7 DEF CancelUnconfirmed, applyVars, In, Attempts
  <2> QED
    BY <1>1, <2>1 DEF AwakeInv, StopMoves, In
<1>8. CASE LateExit
  <2>1. /\ UNCHANGED <<stopping, stopped, hardBlocked, applying, flight>>
        /\ In("unconfirmed") /\ current' = None
    BY <1>8 DEF LateExit, applyVars, stopVars
  <2> QED
    BY <1>1, <2>1, AwakeStays DEF AwakeInv, StopMoves, In
<1>9. ASSUME NEW e \in Entries, RetryFires(e) PROVE AwakeInv'
  <2>1. UNCHANGED <<stopping, stopped, hardBlocked, applying, flight>>
    BY <1>9 DEF RetryFires, applyVars, stopVars
  <2>2. current' = current \/ (~stopped /\ current'.phase = "running")
    BY <1>9 DEF RetryFires, queueVars, Launch, Token
  <2> QED
    BY <1>1, <2>1, <2>2, AwakeStays DEF AwakeInv, StopMoves
<1>10. ASSUME NEW x \in applying, ApplyDone(x) \/ ApplyFails(x) PROVE AwakeInv'
  <2>1. UNCHANGED <<stopping, stopped, hardBlocked>>
    BY <1>10 DEF ApplyDone, ApplyFails, stopVars
  <2>2. flight' # None => \E y \in applying' : y.tok = flight'
    BY <1>10 DEF ApplyDone, ApplyFails, Landed, AwakeInv, StopMoves
  <2>3. current' = current \/ (~stopped /\ current'.phase = "running")
    BY <1>10, PumpAwake, FailAwake DEF ApplyDone, ApplyFails, queueVars
  <2> QED
    BY <1>1, <2>1, <2>2, <2>3, AwakeStays
<1>11. CASE Stop
  <2>1. /\ stopped' /\ UNCHANGED <<applying, flight>>
        /\ stopping' = CASE In("cleaning") -> "cleanup" [] In("running") -> "cancel"
                         [] OTHER -> "apply"
        /\ current' = IF In("running") THEN [current EXCEPT !.phase = "cancelling"]
                      ELSE current
    BY <1>11 DEF Stop, applyVars
  <2>2. CASE In("running")
    BY <1>1, <2>1, <2>2 DEF AwakeInv, StopMoves, In, Attempts
  <2>3. CASE ~In("running")
    BY <2>1, <2>3 DEF AwakeInv, StopMoves, In
  <2> QED
    BY <2>2, <2>3
<1>12. CASE StopCancelled
  <2>1. /\ stopping' = "apply" /\ stopped /\ UNCHANGED <<stopped, applying, flight>>
    BY <1>1, <1>12 DEF StopCancelled, applyVars
  <2> QED
    BY <2>1 DEF AwakeInv, StopMoves
<1>13. CASE StopEnds
  <2>1. /\ stopping' \in {"failed", "stopped"}
        /\ UNCHANGED <<stopped, hardBlocked, applying, flight, current>>
    BY <1>13 DEF StopEnds, applyVars
  <2> QED
    BY <2>1 DEF AwakeInv, StopMoves, In
<1>14. CASE Restart
  BY <1>14 DEF Restart, AwakeInv, StopMoves, In
<1>15. CASE Manager
  <2>1. CASE Timeout
    BY <1>4, <2>1 DEF Timeout
  <2>2. ASSUME NEW c \in Result, ResultError(c) \/ ResultOk(c) PROVE AwakeInv'
    <3>1. CASE ResultError(c)
      <4>1. In("running")
        BY DEF Result
      <4> QED
        BY <1>4, <3>1, <4>1 DEF ResultError
    <3> QED
      BY <1>5, <2>2, <3>1
  <2> QED
    BY <1>6, <1>7, <1>8, <1>9, <1>10, <1>12, <1>13, <1>15, <2>1, <2>2 DEF Manager
<1>16. CASE Next
  BY <1>2, <1>3, <1>11, <1>14, <1>15, <1>16 DEF Next
<1> QED
  BY <1>3, <1>16

(* stop() never waits for nothing: the cleanup, the cancel() or the        *)
(* application it waits for is under way, so that one of the lifecycle's   *)
(* callbacks is due, with any number of attempts and however the attempt   *)
(* that was under way ends.                                                *)
THEOREM StopGoesOn == Spec => []StopMoves
<1>1. Init => AwakeInv
  BY DEF Init, ManagerInit, AwakeInv, StopMoves, In
<1>2. RouteInv /\ AwakeInv /\ [Next]_vars => AwakeInv'
  BY AwakeStep
<1>3. AwakeInv => StopMoves
  BY DEF AwakeInv
<1> QED
  BY <1>1, <1>2, <1>3, RouteInvHolds, PTL DEF Spec
-----------------------------------------------------------------------------
(* The catalog that the directory stands for is whole.                     *)

(* The mutations whose files recovery takes back.                          *)
Unfinished == {i \in Pending : ~IsLeftover(i)}
WholeCatalogs == [Files -> SUBSET Ids]

(* The directory, read as recovery would leave it, is whole and holds      *)
(* exactly what has a receipt; one mutation is under way at most.          *)
LogInv ==
    /\ \A i, j \in Pending : i = j
    /\ \A i \in Pending : journal[i].backup \in WholeCatalogs
    /\ Unfinished = {} => file \in WholeCatalogs
    /\ \A i \in Ids, f \in Files : i \in Durable[f] <=> receipt[i] # None

(* How far a child with request r is in its mutation.                      *)
Writing(c, r) ==
    /\ c.pc \in {"check", "journal"} => Pending = {}
    /\ c.pc = "journal" => c.base = file
    /\ c.pc \in {"journal", "mutate"} => r.expect \in {None, c.base}
    /\ c.pc \in {"journal", "mutate", "rollback", "clean"} => r.kind = "mutate"
    /\ c.pc \in {"mutate", "rollback", "clean"} =>
          Pending = {r.id} /\ journal[r.id].digest = r.digest
    /\ c.pc \in {"mutate", "rollback"} =>
          journal[r.id].backup = c.saved /\ receipt[r.id] = None
    /\ c.pc = "mutate" => c.saved = c.base
    /\ c.pc = "clean" => receipt[r.id] = r.digest
WriterInv == \A c \in children : Writing(c, Request(c))
CatalogInv == LogInv /\ WriterInv

(* The catalog that counts: the files, or the backup of what is unfinished.*)
LEMMA DurableIs ==
    /\ Unfinished = {} => Durable = file
    /\ \A i : Unfinished = {i} => Durable = journal[i].backup
    /\ Unfinished' = {} => Durable' = file'
    /\ \A i : Unfinished' = {i} => Durable' = journal'[i].backup
<1>1. \A i : (CHOOSE x \in {i} : TRUE) = i
  OBVIOUS
<1> QED
  BY <1>1 DEF Durable, Unfinished

(* Files that recovery takes back may change.                              *)
LEMMA FilesChange ==
    ASSUME LogInv, journal' = journal, receipt' = receipt, Unfinished = {} => file' = file
    PROVE  LogInv' /\ Durable' = Durable
<1>1. Pending' = Pending /\ Unfinished' = Unfinished
  BY DEF Pending, Unfinished, IsLeftover, Committed
<1>2. Unfinished = {} \/ \E i : Unfinished = {i}
  BY DEF LogInv, Unfinished
<1>3. Durable' = Durable
  BY <1>1, <1>2, DurableIs
<1> QED
  BY <1>1, <1>3 DEF LogInv

(* A journal goes that is a leftover, or whose files are restored.         *)
LEMMA JournalGoes ==
    ASSUME LogInv, JournalTypes, NEW i \in Pending, journal' = [journal EXCEPT ![i] = None],
           UNCHANGED <<file, receipt>>, IsLeftover(i) \/ file = journal[i].backup
    PROVE  LogInv' /\ Durable' = Durable /\ Pending' = {}
<1>1. Pending = {i} /\ i \in Ids /\ journal[i].backup \in WholeCatalogs
  BY DEF LogInv, Pending
<1>2. Pending' = {} /\ Unfinished' = {}
  BY <1>1 DEF Pending, Unfinished, JournalTypes
<1>3. Unfinished = {} \/ Unfinished = {i}
  BY <1>1 DEF Unfinished
<1>4. Durable' = Durable /\ file \in WholeCatalogs
  BY <1>1, <1>2, <1>3, DurableIs DEF Unfinished, LogInv
<1> QED
  BY <1>2, <1>4 DEF LogInv

(* A journal is written before the first file.                             *)
LEMMA JournalWritten ==
    ASSUME LogInv, JournalTypes, Pending = {}, NEW r \in Requests, receipt[r.id] = None,
           journal' = [journal EXCEPT ![r.id] = [digest |-> r.digest, backup |-> file]],
           UNCHANGED <<file, receipt>>
    PROVE  /\ LogInv' /\ Durable' = Durable /\ Pending' = {r.id}
           /\ journal'[r.id].digest = r.digest /\ journal'[r.id].backup = file
<1> DEFINE entry == [digest |-> r.digest, backup |-> file]
<1>1. r.id \in Ids /\ r.digest \in Digests /\ r.digest # None
  BY JournalAssumption DEF Requests
<1>2. entry # None /\ entry.digest = r.digest /\ entry.backup = file
  BY <1>1, JournalAssumption DEF JournalTypes, Backups
<1>3. \A i \in Ids : journal'[i] = IF i = r.id THEN entry ELSE journal[i]
  BY <1>1 DEF JournalTypes
<1> HIDE DEF entry
<1>4. Pending' = {r.id}
  BY <1>1, <1>2, <1>3 DEF Pending
<1>5. Unfinished = {} /\ Unfinished' = {r.id}
  BY <1>1, <1>2, <1>3, <1>4 DEF Unfinished, IsLeftover, Committed
<1>6. Durable' = Durable /\ file \in WholeCatalogs
  BY <1>1, <1>2, <1>3, <1>5, DurableIs DEF LogInv
<1> QED
  BY <1>1, <1>2, <1>3, <1>4, <1>5, <1>6 DEF LogInv

(* The receipt is the commit point: the whole mutation counts at once.     *)
LEMMA ReceiptWritten ==
    ASSUME LogInv, JournalTypes, NEW r \in Requests, NEW base \in WholeCatalogs,
           Pending = {r.id}, journal[r.id].digest = r.digest, journal[r.id].backup = base,
           receipt[r.id] = None, \A f \in Files : file[f] = base[f] \cup {r.id},
           receipt' = [receipt EXCEPT ![r.id] = r.digest], UNCHANGED <<file, journal>>
    PROVE  /\ LogInv' /\ Pending' = Pending
           /\ \A f \in Files : r.id \notin Durable[f]
           /\ Durable' = [f \in Files |-> Durable[f] \cup {r.id}]
<1>1. r.id \in Ids /\ r.digest \in Digests /\ r.digest # None
  BY JournalAssumption DEF Requests
<1>2. \A i \in Ids : receipt'[i] = IF i = r.id THEN r.digest ELSE receipt[i]
  BY <1>1 DEF JournalTypes
<1>3. Pending' = Pending
  BY DEF Pending
<1>4. Unfinished = {r.id}
  BY <1>1 DEF Unfinished, IsLeftover, Committed
<1>5. Unfinished' = {}
  BY <1>1, <1>2, <1>3 DEF Unfinished, IsLeftover, Committed
<1>6. Durable = base /\ Durable' = file
  BY <1>4, <1>5, DurableIs
<1>7. file = [f \in Files |-> base[f] \cup {r.id}]
  BY DEF JournalTypes, Catalogs
<1>8. file \in WholeCatalogs
  BY <1>1, <1>7 DEF WholeCatalogs
<1>9. \A f \in Files : r.id \notin Durable[f]
  BY <1>1 DEF LogInv
<1>10. \A i \in Ids, f \in Files : i \in Durable'[f] <=> receipt'[i] # None
  <2>1. ASSUME NEW i \in Ids, NEW f \in Files
        PROVE  i \in Durable'[f] <=> receipt'[i] # None
    <3>1. i \in Durable[f] <=> receipt[i] # None
      BY DEF LogInv
    <3>2. Durable'[f] = Durable[f] \cup {r.id}
      BY <1>6, <1>7
    <3> QED
      BY <1>1, <1>2, <3>1, <3>2
  <2> QED
    BY <2>1
<1>11. LogInv'
  BY <1>3, <1>8, <1>10 DEF LogInv
<1> QED
  BY <1>3, <1>6, <1>7, <1>9, <1>11

(* The catalog s is, or was, the one that counts.                          *)
Past(s) == s \in WholeCatalogs /\ \A f \in Files : s[f] \subseteq Durable[f]

(* The catalog that e expects is not the one that counts any more.         *)
Outdated(e) == /\ req[e].expect # None
               /\ \E f \in Files : \E i \in Durable[f] : i \notin req[e].expect[f]
Refused(e) == Outdated(e) /\ \A k \in 1 .. Len(commits) : commits[k] # e

(* What a child has answered for e, with the catalog snap, is true.        *)
Honest(e, ans, snap) ==
    /\ ans \in Successes => /\ Past(snap)
                            /\ req[e].kind = "mutate" => receipt[req[e].id] # None
    /\ ans = "conflict" => Refused(e)

(* Whatever was asked for or found was a catalog at the time.              *)
SeenInv == /\ latest # None => Past(latest)
           /\ \A e \in Entries : out[e] # "new" /\ req[e].expect # None => Past(req[e].expect)

(* What a step of the child c with request r leaves: d, an answer that is  *)
(* true, and the catalog that counts, or the commit.                       *)
Advances(c, d, r) ==
    /\ d \in Children /\ children' = {d} /\ d.tok = c.tok
    /\ Writing(d, r)' /\ LogInv'
    /\ (d.ans = c.ans /\ d.snap = c.snap) \/ Honest(c.tok[1], d.ans, d.snap)
    /\ \/ Durable' = Durable /\ receipt' = receipt /\ commits' = commits
       \/ /\ r.kind = "mutate" /\ receipt[r.id] = None /\ r.expect \in {None, Durable}
          /\ d.ans = c.ans /\ d.snap = c.snap
          /\ receipt' = [receipt EXCEPT ![r.id] = r.digest]
          /\ commits' = Append(commits, c.tok[1])
          /\ \A f \in Files : r.id \notin Durable[f]
          /\ Durable' = [f \in Files |-> Durable[f] \cup {r.id}]

(* What a running child is, and what it asks for.                          *)
LEMMA AtChild ==
    ASSUME RouteInv, CatalogInv, NEW c \in Running
    PROVE  /\ c \in Children /\ children = {c} /\ c.tok[1] \in Entries /\ ChildInv(c)
           /\ Request(c) \in Requests /\ Writing(c, Request(c)) /\ JournalTypes /\ LogInv
           /\ current # None /\ c.tok = current.tok /\ c.ans \in Answers \cup {None}
           /\ c.pc \in {"journal", "mutate"} => receipt[Request(c).id] = None
<1>1. /\ c \in Children /\ children = {c} /\ ChildInv(c) /\ JournalTypes
      /\ current # None /\ c.tok = current.tok
      /\ c.pc \in {"journal", "mutate"} => receipt[Request(c).id] = None
  BY DEF RouteInv, Running, ProcessInv, JournalTypes, ReceiptInv
<1>2. c.tok[1] \in Entries /\ c.ans \in Answers \cup {None}
  BY <1>1 DEF Children, Tokens
<1>3. Request(c) \in Requests
  BY <1>1, <1>2 DEF RouteInv, AskedInv, Request
<1> QED
  BY <1>1, <1>2, <1>3 DEF CatalogInv, WriterInv

(* A child that exits without a commit.                                    *)
LEMMA ExitAdvances ==
    ASSUME RouteInv, CatalogInv, NEW c \in Running, NEW r, r = Request(c),
           NEW ans \in Answers, Exit(c, ans), Honest(c.tok[1], ans, file),
           LogInv', Durable' = Durable, receipt' = receipt, commits' = commits
    PROVE  \E d \in Children : Advances(c, d, r)
<1>1. c \in Children /\ children = {c} /\ JournalTypes
  BY AtChild
<1>2. PICK d \in Children : /\ children' = {d} /\ d.tok = c.tok /\ d.pc = "done" /\ d.ans = ans
                            /\ ans \in Successes => d.snap = file
  BY <1>1, ExitedChild
<1>3. Writing(d, r)'
  BY <1>2 DEF Writing
<1>4. Honest(c.tok[1], d.ans, d.snap)
  BY <1>2 DEF Honest
<1> QED
  BY <1>2, <1>3, <1>4 DEF Advances

(* What the child may answer before it has written anything is true.       *)
LEMMA VerdictHonest ==
    ASSUME RouteInv, CatalogInv, SeenInv, NEW c \in Running, c.pc = "check",
           NEW r, r = Request(c)
    PROVE  Honest(c.tok[1], Verdict(r), file)
<1>1. /\ c.tok[1] \in Entries /\ r \in Requests /\ Writing(c, r) /\ JournalTypes /\ LogInv
      /\ r = req[c.tok[1]]
  BY AtChild DEF Request
<1>2. Pending = {} /\ Unfinished = {}
  BY <1>1 DEF Writing, Unfinished
<1>3. Durable = file /\ file \in WholeCatalogs
  BY <1>1, <1>2, DurableIs DEF LogInv
<1>4. Past(file)
  BY <1>3 DEF Past
<1>5. ASSUME Verdict(r) = "conflict" PROVE Refused(c.tok[1])
  <2>1. r.expect # None /\ r.expect # file /\ receipt[r.id] = None
    BY <1>1, <1>5, VerdictGiven
  <2>2. out[c.tok[1]] # "new"
    BY DEF Running, RouteInv, AskedInv
  <2>3. Past(r.expect)
    BY <1>1, <2>1, <2>2 DEF SeenInv
  <2>4. PICK f \in Files : r.expect[f] # file[f]
    BY <1>3, <2>1, <2>3 DEF Past, WholeCatalogs
  <2>5. \E i \in file[f] : i \notin r.expect[f]
    BY <1>3, <2>3, <2>4 DEF Past
  <2>6. Outdated(c.tok[1])
    BY <1>1, <1>3, <2>1, <2>5 DEF Outdated
  <2>7. \A k \in 1 .. Len(commits) : commits[k] # c.tok[1]
    BY <1>1, <2>1 DEF RouteInv, ReceiptInv
  <2> QED
    BY <2>6, <2>7 DEF Refused
<1> QED
  BY <1>1, <1>4, <1>5, VerdictGiven DEF Honest

(* Restoring the files of what is unfinished, until its journal goes.      *)
LEMMA RestoreKeepsLog ==
    ASSUME LogInv, JournalTypes, NEW i \in Pending, ~IsLeftover(i), receipt' = receipt,
           Restore(i, journal[i].backup)
    PROVE  /\ LogInv' /\ Durable' = Durable
           /\ file # journal[i].backup => journal' = journal
<1>1. Unfinished # {}
  BY DEF Unfinished
<1>2. CASE file = journal[i].backup
  BY <1>2, JournalGoes DEF Restore
<1>3. CASE file # journal[i].backup
  BY <1>1, <1>3, FilesChange DEF Restore
<1> QED
  BY <1>2, <1>3

(* Every step of the child advances it so.                                 *)
LEMMA ChildAdvances ==
    ASSUME RouteInv, CatalogInv, SeenInv, NEW c \in Running, ChildStep(c),
           NEW r, r = Request(c)
    PROVE  \E d \in Children : Advances(c, d, r)
<1>1. /\ c \in Children /\ children = {c} /\ c.tok[1] \in Entries /\ ChildInv(c)
      /\ r \in Requests /\ Writing(c, r) /\ JournalTypes /\ LogInv
      /\ c.pc \in {"journal", "mutate"} => receipt[r.id] = None
  BY AtChild
<1>2. /\ r.id \in Ids /\ r.digest \in Digests /\ r.digest # None /\ r = req[c.tok[1]]
      /\ receipt \in [Ids -> Digests \cup {None}]
  BY <1>1, JournalAssumption DEF Requests, Request, JournalTypes
<1>3. "failed" \in Answers /\ "ok" \in Answers
  BY DEF Answers, Successes
<1>4. Honest(c.tok[1], "failed", file)
  BY DEF Honest, Successes
<1>5. CASE Recover(c)
  <2>1. /\ c.pc = "recover" /\ children' = {c} /\ receipt' = receipt /\ commits' = commits
        /\ \E i \in Pending : IF IsLeftover(i)
                              THEN journal' = [journal EXCEPT ![i] = None] /\ UNCHANGED file
                              ELSE Restore(i, journal[i].backup)
    BY <1>1, <1>5 DEF Recover
  <2>2. LogInv' /\ Durable' = Durable
    BY <1>1, <2>1, JournalGoes, RestoreKeepsLog
  <2>3. Writing(c, r)'
    BY <2>1 DEF Writing
  <2> QED
    BY <1>1, <2>1, <2>2, <2>3 DEF Advances
<1>6. CASE RecoverDone(c)
  <2> DEFINE d == [c EXCEPT !.pc = "check"]
  <2>1. d \in Children /\ d.tok = c.tok /\ d.pc = "check" /\ d.ans = c.ans /\ d.snap = c.snap
    BY <1>1 DEF Children
  <2>2. children' = {d} /\ UNCHANGED <<file, journal, receipt, commits>> /\ Pending = {} /\ c.pc = "recover"
    BY <1>1, <1>6 DEF RecoverDone, At, Become
  <2> HIDE DEF d
  <2>3. LogInv' /\ Durable' = Durable
    BY <1>1, <2>2, FilesChange
  <2>4. Writing(d, r)'
    BY <2>1, <2>2 DEF Writing, Pending
  <2> QED
    BY <2>1, <2>2, <2>3, <2>4 DEF Advances
<1>7. CASE Check(c)
  <2>1. UNCHANGED <<file, journal, receipt, commits>> /\ c.pc = "check" /\ Pending = {}
    BY <1>1, <1>7 DEF Check, Writing
  <2>2. LogInv' /\ Durable' = Durable
    BY <1>1, <2>1, FilesChange
  <2>3. CASE Verdict(r) # None
    <3>1. Exit(c, Verdict(r)) /\ Verdict(r) \in Answers
      BY <1>1, <1>7, <2>3, VerdictGiven DEF Check
    <3>2. Honest(c.tok[1], Verdict(r), file)
      BY <2>1, VerdictHonest
    <3> QED
      BY <2>1, <2>2, <3>1, <3>2, ExitAdvances
  <2>4. CASE Verdict(r) = None
    <3>0. PICK d : d = [c EXCEPT !.pc = "journal", !.base = file]
      OBVIOUS
    <3>1. /\ d \in Children /\ d.tok = c.tok /\ d.pc = "journal" /\ d.base = file /\ d.ans = c.ans
          /\ d.snap = c.snap
      BY <1>1, <3>0 DEF Children, JournalTypes
    <3>2. children' = {d}
      BY <1>1, <1>7, <2>4, <3>0 DEF Check, Become
    <3>3. r.kind = "mutate" /\ r.expect \in {None, file}
      BY <1>1, <2>4, VerdictGiven
    <3>4. Writing(d, r)'
      BY <2>1, <3>1, <3>3 DEF Writing, Pending
    <3> QED
      BY <2>1, <2>2, <3>1, <3>2, <3>4 DEF Advances
  <2> QED
    BY <2>3, <2>4
<1>8. CASE WriteJournal(c)
  <2>0. PICK d : d = [c EXCEPT !.pc = "mutate", !.saved = file]
    OBVIOUS
  <2>1. /\ d \in Children /\ d.tok = c.tok /\ d.pc = "mutate" /\ d.base = c.base
        /\ d.saved = file /\ d.ans = c.ans /\ d.snap = c.snap
    BY <1>1, <2>0 DEF Children, JournalTypes
  <2>2. /\ children' = {d} /\ UNCHANGED <<file, receipt, commits>> /\ c.pc = "journal"
        /\ journal' = [journal EXCEPT ![r.id] = [digest |-> r.digest, backup |-> file]]
    BY <1>1, <1>8, <2>0 DEF WriteJournal, Become
  <2>3. /\ Pending = {} /\ c.base = file /\ r.kind = "mutate" /\ receipt[r.id] = None
        /\ r.expect \in {None, c.base}
    BY <1>1, <2>2 DEF Writing
  <2>4. /\ LogInv' /\ Durable' = Durable /\ Pending' = {r.id}
        /\ journal'[r.id].digest = r.digest /\ journal'[r.id].backup = file
    BY <1>1, <2>2, <2>3, JournalWritten
  <2>5. Writing(d, r)'
    BY <2>1, <2>2, <2>3, <2>4 DEF Writing
  <2> QED
    BY <2>1, <2>2, <2>4, <2>5 DEF Advances
<1>9. CASE Mutate(c)
  <2>1. children' = {c} /\ UNCHANGED <<journal, receipt, commits>> /\ c.pc = "mutate"
    BY <1>1, <1>9 DEF Mutate
  <2>2. r.id \in Unfinished
    BY <1>1, <1>2, <2>1 DEF Writing, Unfinished, IsLeftover, Committed
  <2>3. LogInv' /\ Durable' = Durable
    BY <1>1, <2>1, <2>2, FilesChange
  <2>4. Writing(c, r)'
    BY <1>1, <2>1 DEF Writing, Pending
  <2> QED
    BY <1>1, <2>1, <2>3, <2>4 DEF Advances
<1>10. CASE WriteReceipt(c)
  <2> DEFINE d == [c EXCEPT !.pc = "clean"]
  <2>1. d \in Children /\ d.tok = c.tok /\ d.pc = "clean" /\ d.ans = c.ans /\ d.snap = c.snap
    BY <1>1 DEF Children
  <2>2. /\ children' = {d} /\ UNCHANGED <<file, journal>> /\ c.pc = "mutate"
        /\ receipt' = [receipt EXCEPT ![r.id] = r.digest]
        /\ commits' = Append(commits, c.tok[1])
        /\ \A f \in Files : file[f] = c.base[f] \cup {r.id}
    BY <1>1, <1>10 DEF WriteReceipt, At, Become, Target
  <2> HIDE DEF d
  <2>3. /\ c.base \in WholeCatalogs /\ Pending = {r.id} /\ r.kind = "mutate"
        /\ journal[r.id].digest = r.digest /\ journal[r.id].backup = c.base
        /\ receipt[r.id] = None /\ r.expect \in {None, c.base}
    BY <1>1, <2>2 DEF Writing, ChildInv, WholeCatalogs
  <2>4. /\ LogInv' /\ Pending' = Pending /\ \A f \in Files : r.id \notin Durable[f]
        /\ Durable' = [f \in Files |-> Durable[f] \cup {r.id}]
    BY <1>1, <2>2, <2>3, ReceiptWritten
  <2>5. receipt'[r.id] = r.digest /\ Durable = c.base
    <3>1. Unfinished = {r.id}
      BY <1>2, <2>3 DEF Unfinished, IsLeftover, Committed
    <3> QED
      BY <1>2, <2>2, <2>3, <3>1, DurableIs
  <2>6. Writing(d, r)'
    BY <2>1, <2>2, <2>3, <2>4, <2>5 DEF Writing
  <2> QED
    BY <2>1, <2>2, <2>3, <2>4, <2>5, <2>6 DEF Advances
<1>11. CASE Clean(c)
  <2>1. /\ c.pc = "clean" /\ Exit(c, "ok") /\ UNCHANGED <<file, receipt, commits>>
        /\ journal' = [journal EXCEPT ![r.id] = None]
    BY <1>11 DEF Clean
  <2>2. /\ r.id \in Pending /\ IsLeftover(r.id) /\ receipt[r.id] # None /\ Unfinished = {}
    BY <1>1, <1>2, <2>1 DEF Writing, IsLeftover, Committed, Unfinished
  <2>3. LogInv' /\ Durable' = Durable
    BY <1>1, <2>1, <2>2, JournalGoes
  <2>4. Past(file)
    BY <1>1, <2>2, DurableIs DEF Past, LogInv
  <2>5. Honest(c.tok[1], "ok", file)
    BY <1>2, <2>2, <2>4 DEF Honest
  <2> QED
    BY <1>3, <2>1, <2>3, <2>5, ExitAdvances
<1>12. CASE Rollback(c)
  <2>1. /\ c.pc = "rollback" /\ Restore(r.id, c.saved) /\ receipt' = receipt
        /\ commits' = commits
        /\ IF file = c.saved THEN Exit(c, "failed") ELSE UNCHANGED children
    BY <1>12 DEF Rollback
  <2>2. /\ r.id \in Pending /\ ~IsLeftover(r.id) /\ journal[r.id].backup = c.saved
    BY <1>1, <1>2, <2>1 DEF Writing, IsLeftover, Committed
  <2>3. LogInv' /\ Durable' = Durable /\ (file # c.saved => journal' = journal)
    BY <1>1, <2>1, <2>2, RestoreKeepsLog
  <2>4. CASE file = c.saved
    BY <1>3, <1>4, <2>1, <2>3, <2>4, ExitAdvances
  <2>5. CASE file # c.saved
    <3>1. Writing(c, r)'
      BY <1>1, <2>1, <2>3, <2>5 DEF Writing, Pending
    <3> QED
      BY <1>1, <2>1, <2>3, <2>5, <3>1 DEF Advances
  <2> QED
    BY <2>4, <2>5
<1>13. CASE Throw(c)
  <2>1. UNCHANGED <<file, journal, receipt, commits>>
    BY <1>13 DEF Throw
  <2>2. LogInv' /\ Durable' = Durable
    BY <1>1, <2>1, FilesChange
  <2>3. CASE c.pc = "mutate"
    <3> DEFINE d == [c EXCEPT !.pc = "rollback"]
    <3>1. /\ d \in Children /\ d.tok = c.tok /\ d.pc = "rollback" /\ d.ans = c.ans
          /\ d.saved = c.saved /\ d.snap = c.snap
      BY <1>1 DEF Children
    <3>2. children' = {d}
      BY <1>1, <1>13, <2>3 DEF Throw, At, Become
    <3> HIDE DEF d
    <3>3. Writing(d, r)'
      BY <1>1, <2>1, <2>3, <3>1 DEF Writing, Pending
    <3> QED
      BY <2>1, <2>2, <3>1, <3>2, <3>3 DEF Advances
  <2>4. CASE c.pc # "mutate"
    <3>1. Exit(c, "failed")
      BY <1>13, <2>4 DEF Throw
    <3> QED
      BY <1>3, <1>4, <2>1, <2>2, <3>1, ExitAdvances
  <2> QED
    BY <2>3, <2>4
<1> QED
  BY <1>5, <1>6, <1>7, <1>8, <1>9, <1>10, <1>11, <1>12, <1>13 DEF ChildStep

(* A callback leaves the directory and the children alone, but for the one *)
(* that it forks or that exits.                                            *)
LEMMA CallbackKeepsWhole ==
    ASSUME RouteInv, CatalogInv, UNCHANGED diskVars,
           \A e \in Entries : out[e] # "new" => req'[e] = req[e],
           \A c \in children' : c \in children \/ c.pc \in {"recover", "done"}
    PROVE  CatalogInv' /\ Durable' = Durable
<1>1. /\ UNCHANGED <<file, journal, receipt>>
      /\ \A c \in children : req'[c.tok[1]] = req[c.tok[1]]
  BY DEF diskVars, RouteInv, JournalTypes, Children, Tokens, AskedInv
<1>2. LogInv' /\ Durable' = Durable
  BY <1>1, FilesChange DEF CatalogInv
<1>3. ASSUME NEW c \in children' PROVE Writing(c, Request(c))'
  <2>1. CASE c \in children
    <3>1. Writing(c, Request(c)) /\ req'[c.tok[1]] = req[c.tok[1]]
      BY <1>1, <2>1 DEF CatalogInv, WriterInv
    <3> QED
      BY <1>1, <3>1 DEF Writing, Request, Pending
  <2>2. CASE c.pc \in {"recover", "done"}
    BY <2>2 DEF Writing
  <2> QED
    BY <2>1, <2>2
<1> QED
  BY <1>2, <1>3 DEF CatalogInv, WriterInv

(* The directory is whole at the start.                                    *)
LEMMA CatalogInit == Init => CatalogInv
<1> SUFFICES ASSUME Init PROVE CatalogInv
  OBVIOUS
<1>1. /\ file = [f \in Files |-> {}] /\ \A i \in Ids : journal[i] = None /\ receipt[i] = None
      /\ children = {}
  BY DEF Init, JournalInit
<1>2. Pending = {} /\ Unfinished = {}
  BY <1>1 DEF Pending, Unfinished
<1>3. Durable = [f \in Files |-> {}]
  BY <1>1, <1>2, DurableIs
<1>4. LogInv
  BY <1>1, <1>2, <1>3 DEF LogInv, WholeCatalogs
<1> QED
  BY <1>1, <1>4 DEF CatalogInv, WriterInv

-----------------------------------------------------------------------------
(* The lifecycle implements the atomic catalog, answers included.          *)

(* What children have answered is true, of a snapshot under way too.       *)
HonestInv ==
    /\ \A x \in applying : Honest(x.tok[1], "ok", x.snap)
    /\ \A c \in children : Honest(c.tok[1], c.ans, c.snap)

(* Whoever is told of a conflict, or will be, is refused for ever; whoever *)
(* met a full queue was never attempted.                                   *)
DeniedInv ==
    /\ \A e \in Entries : out[e] = "conflict" => Refused(e)
    /\ current # None /\ current.err = "conflict" => Refused(current.tok[1])
    /\ \A k \in 1 .. Len(commits) : out[commits[k]] # "busy"

(* Whoever is attempted has asked and was not turned away.                 *)
Asking(e) == out[e] \notin {"new", "busy", "lost"}
Attempting ==
    /\ \A e \in Entries : timers[e] > 0 => Asking(e)
    /\ current # None => Asking(current.tok[1])
    /\ \A x \in applying : Asking(x.tok[1])
Waiting(a, q) ==
    /\ a # None => out[a] = "waiting"
    /\ \A k \in 1 .. Len(q) : out[q[k]] = "waiting" /\ q[k] # a
    /\ \A j, k \in 1 .. Len(q) : q[j] = q[k] => j = k
AskerInv == Attempting /\ Waiting(active, queue)

KeepInv == CatalogInv /\ SeenInv /\ HonestInv /\ DeniedInv /\ AskerInv

(* What the lemmas below need of the types.                                *)
LEMMA KeepTypes ==
    ASSUME RouteInv
    PROVE  /\ None \notin Entries
           /\ queue \in Seq(Entries) /\ active \in Entries \cup {None}
           /\ \A k \in 1 .. Len(queue) : queue[k] \in Entries
           /\ current \in Attempts \cup {None}
           /\ \A a \in Attempts : a # None /\ a.tok[1] \in Entries
           /\ \A x \in applying : x.tok[1] \in Entries
           /\ \A c \in children : c.tok[1] \in Entries /\ out[c.tok[1]] # "new"
           /\ out \in [Entries -> Settled \cup {"new", "waiting"}]
           /\ req \in [Entries -> Requests \cup {None}]
           /\ \A e \in Entries : out[e] # "new" => req[e] \in Requests
<1>1. \A t \in Tokens : t[1] \in Entries
  BY DEF Tokens
<1>2. \A a \in Attempts : a # None /\ a.tok \in Tokens
  BY CatalogAssumption DEF Attempts
<1>3. \A x \in applying : x.tok \in Tokens
  BY DEF RouteInv, AnswerTypes
<1>4. \A c \in children : c.tok \in Tokens /\ out[c.tok[1]] # "new"
  BY DEF RouteInv, JournalTypes, Children, AskedInv
<1>5. /\ None \notin Entries
      /\ queue \in Seq(Entries) /\ active \in Entries \cup {None}
      /\ \A k \in 1 .. Len(queue) : queue[k] \in Entries
      /\ current \in Attempts \cup {None}
      /\ out \in [Entries -> Settled \cup {"new", "waiting"}]
      /\ req \in [Entries -> Requests \cup {None}]
      /\ \A e \in Entries : out[e] # "new" => req[e] \in Requests
  BY JournalAssumption DEF RouteInv, QueueTypes, AskedInv, AnswerTypes
<1> QED
  BY <1>1, <1>2, <1>3, <1>4, <1>5

(* The catalog that counts only grows, and never by whom it has overtaken. *)
Grows ==
    /\ \A f \in Files : Durable[f] \subseteq Durable'[f]
    /\ \A i \in Ids : receipt[i] # None => receipt'[i] # None
    /\ \/ commits' = commits
       \/ \E e \in Entries : commits' = Append(commits, e) /\ ~Outdated(e)

(* Then what was true of an entry stays true.                              *)
LEMMA HonestStays ==
    ASSUME Grows, commits \in Seq(Entries), NEW e, req[e] \in Requests, req'[e] = req[e]
    PROVE  /\ \A s : Past(s) => Past(s)'
           /\ Refused(e) => Refused(e)'
           /\ \A ans, snap : Honest(e, ans, snap) => Honest(e, ans, snap)'
<1>1. \A s : Past(s) => Past(s)'
  BY DEF Past, Grows
<1>2. req[e].id \in Ids
  BY DEF Requests
<1>3. Outdated(e) => Outdated(e)'
  BY DEF Outdated, Grows
<1>4. ASSUME Refused(e) PROVE Refused(e)'
  <2>1. Outdated(e)' /\ \A k \in 1 .. Len(commits) : commits[k] # e
    BY <1>3, <1>4 DEF Refused
  <2>2. ASSUME NEW f \in Entries, commits' = Append(commits, f), ~Outdated(f)
        PROVE  \A k \in 1 .. Len(commits') : commits'[k] # e
    <3>1. f # e
      BY <1>4, <2>2 DEF Refused
    <3>2. \A k \in 1 .. Len(commits') :
              commits'[k] = f \/ (k \in 1 .. Len(commits) /\ commits'[k] = commits[k])
      BY <2>2
    <3> QED
      BY <2>1, <3>1, <3>2
  <2>3. \A k \in 1 .. Len(commits') : commits'[k] # e
    BY <2>1, <2>2 DEF Grows
  <2> QED
    BY <2>1, <2>3 DEF Refused
<1>5. ASSUME NEW ans, NEW snap, Honest(e, ans, snap) PROVE Honest(e, ans, snap)'
  <2>1. ans \in Successes => Past(snap)' /\ (req'[e].kind = "mutate" => receipt'[req'[e].id] # None)
    BY <1>1, <1>2, <1>5 DEF Honest, Grows
  <2>2. ans = "conflict" => Refused(e)'
    BY <1>4, <1>5 DEF Honest
  <2> QED
    BY <2>1, <2>2 DEF Honest
<1> QED
  BY <1>1, <1>4, <1>5

(* A step of the child keeps the answers true, and is a stutter of the     *)
(* atomic catalog or its commit.                                           *)
LEMMA ChildKeepsCatalog ==
    ASSUME RouteInv, KeepInv, ChildMove
    PROVE  KeepInv' /\ [Atomic!Next]_<<Durable, req, out>>
<1>1. PICK c \in Running : ChildStep(c)
  BY DEF ChildMove
<1>2. PICK r : r = Request(c)
  OBVIOUS
<1>3. PICK d \in Children : Advances(c, d, r)
  BY <1>1, <1>2, ChildAdvances DEF KeepInv
<1>4. UNCHANGED <<req, out, active, queue, applying, latest, current, timers>>
  BY <1>1, ChildMoves DEF ChildMove, applyVars
<1>5. /\ c \in children /\ c.tok[1] \in Entries /\ r \in Requests /\ r = req[c.tok[1]]
      /\ current # None /\ c.tok = current.tok
  BY <1>2, AtChild DEF Running, Request, KeepInv
<1>6. /\ r.id \in Ids /\ r.digest # None /\ receipt \in [Ids -> Digests \cup {None}]
      /\ commits \in Seq(Entries)
  BY <1>5, JournalAssumption DEF Requests, RouteInv, JournalTypes
<1>7. children' = {d} /\ d.tok = c.tok /\ Writing(d, r)' /\ LogInv'
  BY <1>3 DEF Advances
<1>8. Asking(c.tok[1])
  BY <1>5 DEF KeepInv, AskerInv, Attempting
<1>9. CASE Durable' = Durable /\ receipt' = receipt /\ commits' = commits
  <2>1. Grows
    BY <1>9 DEF Grows
  <2>2. DeniedInv' /\ SeenInv'
    BY <1>4, <1>9 DEF KeepInv, DeniedInv, SeenInv, Refused, Outdated, Past
  <2>3. Honest(c.tok[1], d.ans, d.snap)
    BY <1>3, <1>5 DEF Advances, KeepInv, HonestInv
  <2>4. HonestInv'
    BY <1>4, <1>7, <1>9, <2>3 DEF KeepInv, HonestInv, Honest, Refused, Outdated, Past
  <2> QED
    BY <1>4, <1>5, <1>7, <1>9, <2>2, <2>4
       DEF KeepInv, CatalogInv, WriterInv, Request, AskerInv, Attempting, Waiting, Asking, Writing
<1>10. CASE /\ r.kind = "mutate" /\ receipt[r.id] = None /\ r.expect \in {None, Durable}
            /\ d.ans = c.ans /\ d.snap = c.snap
            /\ receipt' = [receipt EXCEPT ![r.id] = r.digest]
            /\ commits' = Append(commits, c.tok[1])
            /\ \A f \in Files : r.id \notin Durable[f]
            /\ Durable' = [f \in Files |-> Durable[f] \cup {r.id}]
  <2>1. ~Outdated(c.tok[1])
    BY <1>5, <1>10 DEF Outdated
  <2>2. Grows
    BY <1>5, <1>6, <1>10, <2>1 DEF Grows
  <2>3. ASSUME NEW e \in Entries, out[e] # "new"
        PROVE  /\ \A s : Past(s) => Past(s)'
               /\ Refused(e) => Refused(e)'
               /\ \A ans, snap : Honest(e, ans, snap) => Honest(e, ans, snap)'
    BY <1>4, <1>6, <2>2, <2>3, HonestStays, KeepTypes
  <2>4. SeenInv'
    BY <1>4, <1>5, <1>8, <2>3 DEF KeepInv, SeenInv, Asking
  <2>5. HonestInv'
    <3>1. \A x \in applying : x.tok[1] \in Entries /\ out[x.tok[1]] # "new"
      BY KeepTypes DEF KeepInv, AskerInv, Attempting, Asking
    <3>2. \A x \in applying : Honest(x.tok[1], "ok", x.snap)'
      BY <2>3, <3>1 DEF KeepInv, HonestInv
    <3>3. Honest(d.tok[1], d.ans, d.snap)'
      BY <1>5, <1>7, <1>8, <1>10, <2>3 DEF KeepInv, HonestInv, Asking
    <3> QED
      BY <1>4, <1>7, <3>2, <3>3 DEF HonestInv
  <2>6. DeniedInv'
    <3>1. \A e \in Entries : out'[e] = "conflict" => Refused(e)'
      BY <1>4, <2>3 DEF KeepInv, DeniedInv
    <3>2. (current # None /\ current.err = "conflict" => Refused(current.tok[1]))'
      <4>1. current.err = "conflict" => Refused(c.tok[1])'
        BY <1>5, <1>8, <2>3 DEF KeepInv, DeniedInv, Asking
      <4> QED
        BY <1>4, <1>5, <4>1 DEF Refused, Outdated
    <3>3. \A k \in 1 .. Len(commits') :
              commits'[k] = c.tok[1] \/ (k \in 1 .. Len(commits) /\ commits'[k] = commits[k])
      BY <1>5, <1>6, <1>10
    <3>4. \A k \in 1 .. Len(commits') : out'[commits'[k]] # "busy"
      BY <1>4, <1>8, <3>3 DEF KeepInv, DeniedInv, Asking
    <3> QED
      BY <3>1, <3>2, <3>4 DEF DeniedInv
  <2>7. out[c.tok[1]] # "conflict"
    BY <1>5, <2>1 DEF KeepInv, DeniedInv, Refused
  <2>8. Atomic!Merge(c.tok[1])
    BY <1>4, <1>5, <1>8, <1>10, <2>7 DEF Atomic!Merge, Atomic!Lacks, Asking
  <2> QED
    BY <1>4, <1>5, <1>7, <2>4, <2>5, <2>6, <2>8
       DEF KeepInv, CatalogInv, WriterInv, Request, AskerInv, Attempting, Waiting, Asking,
           Writing, Atomic!Next
<1> QED
  BY <1>3, <1>9, <1>10 DEF Advances

(* What a callback may tell e: that it waits, or an answer that is true.   *)
ToldNow(e) ==
    \/ out[e] = "new" /\ out'[e] \in {"waiting", "busy"}
    \/ /\ out[e] = "waiting" /\ out'[e] # "busy"
       /\ out'[e] = "ok" /\ req[e].kind = "mutate" => receipt[req[e].id] # None
       /\ out'[e] = "conflict" => Refused(e)

(* The children, snapshots, catalog and error that a callback may leave.   *)
Leaves ==
    /\ \A c \in children' : \/ c \in children
                            \/ c.pc = "recover" /\ c.ans = None
                            \/ c.pc = "done" /\ c.ans = "failed"
    /\ \A x \in applying' :
           \/ x \in applying
           \/ \E c \in children : c.tok = x.tok /\ c.ans \in Successes /\ c.snap = x.snap
    /\ latest' \in {latest, None} \/ \E x \in applying : latest' = x.snap
    /\ current' # None /\ current'.err = "conflict" =>
           /\ current # None /\ current'.tok = current.tok
           /\ \/ current.err = "conflict"
              \/ \E c \in children : c.tok = current.tok /\ c.ans = "conflict"

(* A callback leaves the directory alone and tells everyone the truth.     *)
LEMMA CallbackKeepsCatalog ==
    ASSUME RouteInv, KeepInv, UNCHANGED diskVars, AskerInv', Leaves,
           \A e \in Entries : out[e] # "new" => req'[e] = req[e],
           \A e \in Entries : out[e] = "new" /\ out'[e] # "new" => req'[e].expect \in {None} \cup Seen,
           \A e \in Entries : out'[e] # out[e] => ToldNow(e)
    PROVE  KeepInv' /\ [Atomic!Next]_<<Durable, req, out>>
<1>1. /\ UNCHANGED <<file, journal, receipt, commits>>
      /\ commits \in Seq(Entries) /\ \A k \in 1 .. Len(commits) : commits[k] \in Entries
      /\ \A k \in 1 .. Len(commits) : out[commits[k]] # "new"
      /\ "failed" \notin Successes /\ None \notin Successes /\ None # "conflict"
      /\ "ok" \in Successes
  BY JournalAssumption DEF diskVars, RouteInv, JournalTypes, AskedInv, Answers, Successes
<1>2. CatalogInv' /\ Durable' = Durable
  BY CallbackKeepsWhole DEF KeepInv, Leaves
<1>3. Grows
  BY <1>1, <1>2 DEF Grows
<1>4. ASSUME NEW e \in Entries, out[e] # "new"
      PROVE  /\ \A s : Past(s) => Past(s)'
             /\ Refused(e) => Refused(e)'
             /\ \A ans, snap : Honest(e, ans, snap) => Honest(e, ans, snap)'
  BY <1>1, <1>3, <1>4, HonestStays, KeepTypes
<1>5. \A s : Past(s) => Past(s)'
  BY <1>2 DEF Past
<1>6. \A x \in applying : /\ x.tok[1] \in Entries /\ out[x.tok[1]] # "new"
                         /\ Past(x.snap) /\ Honest(x.tok[1], "ok", x.snap)
  BY <1>1, KeepTypes DEF KeepInv, AskerInv, Attempting, Asking, HonestInv, Honest
<1>7. SeenInv'
  <2>1. latest' # None => Past(latest')
    BY <1>6 DEF KeepInv, SeenInv, Leaves
  <2>2. ASSUME NEW e \in Entries, out'[e] # "new", req'[e].expect # None
        PROVE  Past(req'[e].expect)
    <3>1. CASE out[e] # "new"
      BY <2>2, <3>1 DEF KeepInv, SeenInv
    <3>2. CASE out[e] = "new"
      <4>1. Past([f \in Files |-> {}])
        BY DEF Past, WholeCatalogs
      <4> QED
        BY <2>2, <3>2, <4>1 DEF Seen, KeepInv, SeenInv
    <3> QED
      BY <3>1, <3>2
  <2> QED
    BY <1>5, <2>1, <2>2 DEF SeenInv
<1>8. HonestInv'
  <2>1. ASSUME NEW x \in applying' PROVE Honest(x.tok[1], "ok", x.snap)'
    <3>1. CASE x \in applying
      BY <1>4, <1>6, <3>1
    <3>2. ASSUME NEW c \in children, c.tok = x.tok, c.ans \in Successes, c.snap = x.snap
          PROVE  Honest(x.tok[1], "ok", x.snap)'
      <4>1. Honest(x.tok[1], "ok", x.snap)
        BY <1>1, <3>2 DEF KeepInv, HonestInv, Honest
      <4> QED
        BY <1>4, <3>2, <4>1, KeepTypes
    <3> QED
      BY <3>1, <3>2 DEF Leaves
  <2>2. ASSUME NEW c \in children' PROVE Honest(c.tok[1], c.ans, c.snap)'
    <3>1. CASE c \in children
      BY <1>4, <3>1, KeepTypes DEF KeepInv, HonestInv
    <3>2. CASE c.ans \in {None, "failed"}
      BY <1>1, <3>2 DEF Honest
    <3> QED
      BY <3>1, <3>2 DEF Leaves
  <2> QED
    BY <2>1, <2>2 DEF HonestInv
<1>9. DeniedInv'
  <2>1. ASSUME NEW e \in Entries, out'[e] = "conflict" PROVE Refused(e)'
    <3>1. Refused(e) /\ out[e] # "new"
      BY <2>1 DEF KeepInv, DeniedInv, ToldNow
    <3> QED
      BY <1>4, <3>1
  <2>2. ASSUME current' # None, current'.err = "conflict" PROVE Refused(current.tok[1])'
    <3>1. current # None /\ current'.tok = current.tok /\ current.tok[1] \in Entries
      BY <2>2, KeepTypes DEF Leaves
    <3>2. out[current.tok[1]] # "new"
      BY <3>1 DEF KeepInv, AskerInv, Attempting, Asking
    <3>3. Refused(current.tok[1])
      BY <2>2, <3>1 DEF Leaves, KeepInv, DeniedInv, HonestInv, Honest
    <3>4. PICK e \in Entries : e = current.tok[1]
      BY <3>1
    <3>5. Refused(e)'
      BY <1>4, <3>2, <3>3, <3>4
    <3> QED
      BY <3>1, <3>4, <3>5 DEF Refused, Outdated
  <2>3. \A k \in 1 .. Len(commits) : out'[commits[k]] # "busy"
    BY <1>1 DEF KeepInv, DeniedInv, ToldNow
  <2> QED
    BY <1>1, <2>1, <2>2, <2>3 DEF DeniedInv
<1>10. Atomic!Talk
  <2>1. ASSUME NEW e \in Entries, out'[e] # out[e]
        PROVE  \/ out[e] = "new" /\ out'[e] \in {"waiting", "busy"}
               \/ out[e] = "waiting" /\ Atomic!TrueAnswer(e, out'[e])
    <3>1. CASE out[e] = "waiting"
      <4>1. req[e].id \in Ids
        BY <3>1 DEF RouteInv, AskedInv, Requests
      <4>2. \A f \in Files : req[e].id \in Durable[f] <=> receipt[req[e].id] # None
        BY <4>1 DEF KeepInv, CatalogInv, LogInv
      <4> QED
        BY <2>1, <3>1, <4>2 DEF ToldNow, Atomic!TrueAnswer, Atomic!Holds
    <3> QED
      BY <2>1, <3>1 DEF ToldNow
  <2> QED
    BY <1>2, <2>1 DEF Atomic!Talk
<1> QED
  BY <1>2, <1>7, <1>8, <1>9, <1>10 DEF KeepInv, Atomic!Next

(* What pump() and startAttempt() leave when an attempt cur was there.     *)
Started(cur) ==
    /\ \A c \in children' : c \in children \/ (c.pc = "recover" /\ c.ans = None)
    /\ current' = cur \/ current'.err # "conflict"

(* An entry that asks is attempted.                                        *)
LEMMA LaunchAsks ==
    ASSUME RouteInv, NEW e \in Entries, NEW a \in Entries \cup {None}, NEW q \in Seq(Entries),
           Running = {}, Launch(e, a, q, None), Asking(e)', Waiting(a, q)',
           \A f \in Entries : timers'[f] > 0 => Asking(f)',
           \A x \in applying' : Asking(x.tok[1])'
    PROVE  AskerInv' /\ Started(None)
<1>1. active' = a /\ queue' = q /\ Attempted(e)
  BY LaunchAttempts
<1>2. PICK c \in Children : children' = {c} /\ c.pc = "recover" /\ c.ans = None
  BY <1>1 DEF Attempted
<1>3. current'.tok[1] = e
  BY <1>1 DEF Attempted
<1>4. current'.err = None /\ None # "conflict"
  BY JournalAssumption DEF Launch, Token, Answers
<1>5. Attempting'
  BY <1>3 DEF Attempting, Asking
<1>6. Waiting(active, queue)'
  BY <1>1 DEF Waiting
<1> QED
  BY <1>2, <1>4, <1>5, <1>6 DEF AskerInv, Started

(* pump() attempts who waits.                                              *)
LEMMA PumpAsks ==
    ASSUME RouteInv, NEW a \in Entries \cup {None}, NEW q \in Seq(Entries),
           NEW cur \in Attempts \cup {None}, NEW rt, Pump(a, q, cur, rt),
           cur = None => Running = {}, Waiting(a, q)',
           \A f \in Entries : timers'[f] > 0 => Asking(f)',
           \A x \in applying' : Asking(x.tok[1])',
           cur # None => Asking(cur.tok[1])'
    PROVE  AskerInv' /\ Started(cur)
<1>1. CASE active' = a /\ queue' = q /\ current' = cur /\ children' = Kept(cur)
  <2>1. Attempting' /\ Waiting(active, queue)'
    BY <1>1 DEF Attempting, Waiting, Asking
  <2> QED
    BY <1>1, <2>1 DEF AskerInv, Started, Kept
<1>2. CASE MayPump(cur, rt) /\ a # None /\ Launch(a, a, q, None)
  <2>1. Asking(a)' /\ Running = {} /\ cur = None
    BY <1>2 DEF Waiting, Asking, MayPump
  <2> QED
    BY <1>2, <2>1, LaunchAsks
<1>3. CASE MayPump(cur, rt) /\ q # <<>> /\ Launch(Head(q), Head(q), Tail(q), None)
  <2>1. PICK e, p : e = Head(q) /\ p = Tail(q)
    OBVIOUS
  <2>2. /\ e \in Entries /\ p \in Seq(Entries) /\ e = q[1] /\ 1 \in 1 .. Len(q)
        /\ \A k \in 1 .. Len(p) : k + 1 \in 1 .. Len(q) /\ p[k] = q[k + 1] /\ k \in Nat /\ k + 1 # 1
    BY <1>3, <2>1, TailOfEntries
  <2>3. \A k \in 1 .. Len(p) : out'[p[k]] = "waiting" /\ p[k] # e
    BY <2>2 DEF Waiting
  <2>4. \A j, k \in 1 .. Len(p) : p[j] = p[k] => j = k
    <3>1. ASSUME NEW j \in 1 .. Len(p), NEW k \in 1 .. Len(p), p[j] = p[k] PROVE j + 1 = k + 1
      BY <2>2, <3>1 DEF Waiting
    <3> QED
      BY <2>2, <3>1
  <2>5. out'[e] = "waiting"
    BY <2>2 DEF Waiting
  <2>6. Waiting(e, p)' /\ Asking(e)'
    BY <2>3, <2>4, <2>5 DEF Waiting, Asking
  <2>7. Running = {} /\ cur = None
    BY <1>3 DEF MayPump
  <2> QED
    BY <1>3, <2>1, <2>2, <2>6, <2>7, LaunchAsks
<1> QED
  BY <1>1, <1>2, <1>3, PumpCases

(* What is known of those who wait when a callback is run.                 *)
LEMMA AskersWait ==
    ASSUME RouteInv, KeepInv
    PROVE  /\ Waiting(active, queue)
           /\ active # None => active \in Entries
           /\ \A k \in 1 .. Len(queue) : queue[k] \in Entries /\ out[queue[k]] = "waiting"
           /\ current # None => current.tok[1] \in Entries /\ Asking(current.tok[1])
           /\ \A x \in applying : x.tok[1] \in Entries /\ Asking(x.tok[1])
           /\ \A e \in Entries : timers[e] > 0 => Asking(e)
BY KeepTypes DEF KeepInv, AskerInv, Attempting, Waiting

(* An attempt of e fails, or its application does.                         *)
LEMMA FailKeepsCatalog ==
    ASSUME RouteInv, KeepInv, req' = req, UNCHANGED diskVars, latest' = latest,
           applying' \subseteq applying,
           NEW e \in Entries, NEW err, err = "conflict" => Refused(e),
           NEW cur \in Attempts \cup {None}, FailEntry(e, err, cur),
           cur = current \/ (cur = None /\ Running = {})
    PROVE  KeepInv' /\ [Atomic!Next]_<<Durable, req, out>>
<1>1. /\ queue \in Seq(Entries) /\ None \notin Entries /\ active \in Entries \cup {None}
      /\ out \in [Entries -> Settled \cup {"new", "waiting"}]
      /\ cur = None => Running = {}
      /\ timers \in [Entries -> Nat]
  BY KeepTypes, NobodyRuns DEF RouteInv, QueueTypes
<1>2. ASSUME NEW a \in {active, None}, NEW rt, Pump(a, queue, cur, rt),
             \A f \in Entries : out'[f] # out[f] =>
                 /\ f = e /\ active = e /\ a = None /\ out'[f] \in {"conflict", "failed"}
                 /\ out'[f] = "conflict" => Refused(f),
             \A f \in Entries : timers'[f] > 0 => timers[f] > 0 \/ active = f
      PROVE  KeepInv' /\ [Atomic!Next]_<<Durable, req, out>>
  <2>1. \A f \in Entries : out'[f] # out[f] => ToldNow(f)
    BY <1>1, <1>2, AskersWait DEF ToldNow, Waiting
  <2>2. \A f \in Entries : Asking(f) => Asking(f)'
    BY <1>2 DEF Asking
  <2>3. \A f \in Entries : out[f] = "new" => out'[f] = "new"
    BY <1>1, <1>2, AskersWait DEF Waiting
  <2>4. \A f \in Entries : timers'[f] > 0 => Asking(f)'
    <3>1. \A f \in Entries : active = f => Asking(f)
      BY <1>1, AskersWait DEF Asking, Waiting
    <3> QED
      BY <1>2, <2>2, <3>1, AskersWait
  <2>5. /\ \A x \in applying' : Asking(x.tok[1])'
        /\ cur # None => Asking(cur.tok[1])'
    BY <2>2, AskersWait
  <2>6. a \in Entries \cup {None}
    BY <1>1
  <2>7. PICK q : q = queue
    OBVIOUS
  <2>8. Waiting(a, q)'
    BY <1>1, <1>2, <2>7, AskersWait DEF Waiting
  <2>9. AskerInv' /\ Started(cur)
    BY <1>1, <1>2, <2>4, <2>5, <2>6, <2>7, <2>8, PumpAsks
  <2>10. Leaves
    BY <2>9 DEF Started, Leaves
  <2> QED
    BY <2>1, <2>3, <2>9, <2>10, CallbackKeepsCatalog
<1>3. CASE stopped \/ active # e
  <2>1. Pump(active, queue, cur, retry) /\ out' = out /\ timers' = timers
    BY <1>3 DEF FailEntry
  <2> QED
    BY <1>2, <2>1
<1>4. CASE ~stopped /\ active = e /\ err # "conflict" /\ attempts[e] < MaxAttempts
  <2>1. Pump(active, queue, cur, TRUE) /\ out' = out /\ timers' = [timers EXCEPT ![e] = @ + 1]
    BY <1>4 DEF FailEntry
  <2>2. \A f \in Entries : timers'[f] > 0 => timers[f] > 0 \/ active = f
    BY <1>1, <1>4, <2>1
  <2> QED
    BY <1>2, <2>1, <2>2
<1>5. CASE /\ ~stopped /\ active = e
           /\ ~(err # "conflict" /\ attempts[e] < MaxAttempts)
  <2>1. PICK answer \in {"conflict", "failed"} :
            /\ out' = [out EXCEPT ![e] = answer] /\ Pump(None, queue, cur, retry)
            /\ timers' = timers /\ (answer = "conflict" => err = "conflict")
    BY <1>5 DEF FailEntry
  <2>2. \A f \in Entries : out'[f] # out[f] =>
            /\ f = e /\ active = e /\ out'[f] \in {"conflict", "failed"}
            /\ out'[f] = "conflict" => Refused(f)
    BY <1>1, <1>5, <2>1
  <2> QED
    BY <1>1, <1>2, <2>1, <2>2
<1> QED
  BY <1>3, <1>4, <1>5

(* A new entry is asked for and waits, or is turned away.                  *)
LEMMA EnqueueKeepsCatalog ==
    ASSUME RouteInv, KeepInv, NEW o, Enqueue(o)
    PROVE  KeepInv' /\ [Atomic!Next]_<<Durable, req, out>>
<1>1. PICK n : n = NextEntry
  OBVIOUS
<1>2. n \in Entries /\ out[n] = "new"
  BY <1>1, NextIsNew DEF Enqueue
<1>3. /\ UNCHANGED <<diskVars, timers, applying, latest>>
      /\ \E answer \in {"busy", "waiting"} : out' = [out EXCEPT ![n] = answer]
  BY <1>1 DEF Enqueue, applyVars
<1>4. /\ queue \in Seq(Entries) /\ current \in Attempts \cup {None} /\ None \notin Entries
      /\ active \in Entries \cup {None}
      /\ out \in [Entries -> Settled \cup {"new", "waiting"}]
      /\ req \in [Entries -> Requests \cup {None}]
  BY KeepTypes
<1>5. \A e \in Entries : e # n => out'[e] = out[e] /\ req'[e] = req[e]
  BY <1>1, <1>2, <1>3, <1>4 DEF Enqueue
<1>6. req'[n].expect \in {None} \cup Seen
  <2>1. PICK expect \in IF o.guarded THEN Seen ELSE {None} :
            req' = [req EXCEPT ![n] = [kind |-> o.kind, id |-> o.id,
                                       digest |-> o.digest, expect |-> expect]]
    BY <1>1 DEF Enqueue
  <2>2. req'[n].expect = expect
    BY <1>2, <1>4, <2>1
  <2> QED
    BY <2>2
<1>7. out'[n] \in {"busy", "waiting"}
  BY <1>2, <1>3, <1>4
<1>8. \A e \in Entries : Asking(e) => Asking(e)' /\ e # n
  BY <1>2, <1>5 DEF Asking
<1>9. AskerInv' /\ Started(current)
  <2>1. /\ \A e \in Entries : timers'[e] > 0 => Asking(e)'
        /\ \A x \in applying' : Asking(x.tok[1])'
    BY <1>3, <1>8, AskersWait
  <2>2. active # None => active # n /\ out'[active] = "waiting"
    BY <1>2, <1>5, AskersWait DEF Waiting
  <2>3. \A k \in 1 .. Len(queue) : queue[k] # n /\ out'[queue[k]] = "waiting"
    BY <1>2, <1>5, AskersWait
  <2>4. CASE Full
    <3>1. UNCHANGED <<queue, active, children, current>>
      BY <2>4 DEF Enqueue, queueVars
    <3>2. Waiting(active, queue)'
      BY <2>2, <2>3, <3>1, AskersWait DEF Waiting
    <3>3. current # None => Asking(current.tok[1])'
      BY <1>8, <3>1, AskersWait DEF Asking
    <3> QED
      BY <2>1, <3>1, <3>2, <3>3 DEF AskerInv, Attempting, Started
  <2>5. CASE ~Full
    <3>1. PICK q, a, cur, rt : q = Append(queue, n) /\ a = active /\ cur = current /\ rt = retry
      OBVIOUS
    <3>2. Pump(a, q, cur, rt) /\ out'[n] = "waiting"
      BY <1>1, <1>2, <1>4, <2>5, <3>1 DEF Enqueue
    <3>3. /\ q \in Seq(Entries) /\ Len(q) = Len(queue) + 1 /\ q[Len(q)] = n
          /\ \A k \in 1 .. Len(q) : k = Len(q) \/ (k \in 1 .. Len(queue) /\ q[k] = queue[k])
      BY <1>2, <1>4, <3>1
    <3>4. Waiting(a, q)'
      <4>1. \A k \in 1 .. Len(q) : out'[q[k]] = "waiting" /\ q[k] # a
        BY <1>2, <1>4, <2>2, <2>3, <3>1, <3>2, <3>3, AskersWait DEF Waiting
      <4>2. \A j, k \in 1 .. Len(q) : q[j] = q[k] => j = k
        BY <2>3, <3>3, AskersWait DEF Waiting
      <4> QED
        BY <2>2, <3>1, <4>1, <4>2 DEF Waiting
    <3>5. cur # None => Asking(cur.tok[1])'
      <4>1. cur # None => cur.tok[1] \in Entries /\ Asking(cur.tok[1])
        BY <3>1, AskersWait
      <4> QED
        BY <1>8, <4>1
    <3>6. cur = None => Running = {}
      BY <3>1, NobodyRuns DEF RouteInv
    <3> QED
      BY <1>4, <2>1, <3>1, <3>2, <3>3, <3>4, <3>5, <3>6, PumpAsks
  <2> QED
    BY <2>4, <2>5
<1>10. Leaves
  BY <1>3, <1>9 DEF Started, Leaves
<1>11. \A e \in Entries : out'[e] # out[e] => ToldNow(e)
  BY <1>2, <1>5, <1>7 DEF ToldNow
<1> QED
  BY <1>2, <1>3, <1>5, <1>6, <1>9, <1>10, <1>11, CallbackKeepsCatalog

(* The retry timer fires, for whom it was set.                             *)
LEMMA RetryKeepsCatalog ==
    ASSUME RouteInv, KeepInv, NEW e \in Entries, RetryFires(e)
    PROVE  KeepInv' /\ [Atomic!Next]_<<Durable, req, out>>
<1>1. /\ UNCHANGED <<diskVars, req, out, applying, latest>>
      /\ timers[e] > 0 /\ timers' = [timers EXCEPT ![e] = @ - 1]
      /\ timers \in [Entries -> Nat]
      /\ active \in Entries \cup {None} /\ queue \in Seq(Entries)
  BY KeepTypes DEF RetryFires, applyVars, RouteInv, QueueTypes
<1>2. \A f \in Entries : timers'[f] > 0 => timers[f] > 0
  BY <1>1
<1>3. \A f : Asking(f) => Asking(f)'
  BY <1>1 DEF Asking
<1>4. /\ \A f \in Entries : timers'[f] > 0 => Asking(f)'
      /\ \A x \in applying' : Asking(x.tok[1])'
      /\ Asking(e)'
  BY <1>1, <1>2, <1>3, AskersWait
<1>5. CASE stopped \/ hardBlocked \/ current # None
  <2>1. UNCHANGED <<queue, active, children, current>>
    BY <1>5 DEF RetryFires, queueVars
  <2>2. AskerInv' /\ Leaves
    BY <1>1, <1>4, <2>1 DEF KeepInv, AskerInv, Attempting, Waiting, Asking, Leaves
  <2> QED
    BY <1>1, <2>2, CallbackKeepsCatalog
<1>6. CASE ~(stopped \/ hardBlocked \/ current # None)
  <2>1. PICK a, q : a = active /\ q = queue
    OBVIOUS
  <2>2. Launch(e, a, q, None) /\ Running = {}
    BY <1>6, <2>1, NobodyRuns DEF RetryFires, RouteInv
  <2>3. Waiting(a, q)'
    BY <1>1, <2>1, AskersWait DEF Waiting
  <2>4. AskerInv' /\ Started(None)
    BY <1>1, <1>4, <2>1, <2>2, <2>3, LaunchAsks
  <2>5. Leaves
    BY <1>1, <2>4 DEF Started, Leaves
  <2> QED
    BY <1>1, <2>4, <2>5, CallbackKeepsCatalog
<1> QED
  BY <1>5, <1>6

(* A callback that attempts nobody, and answers those it stops waiting for *)
(* without a word on whether they are committed.                           *)
LEMMA OthersKeepCatalog ==
    ASSUME RouteInv, KeepInv, UNCHANGED <<diskVars, req>>, Leaves,
           \A e \in Entries : timers'[e] > 0 => timers[e] > 0,
           current' # None => current # None /\ current'.tok = current.tok,
           \A x \in applying' : x \in applying \/ (current # None /\ x.tok = current.tok),
           active' = None \/ (active' = active /\ out' = out),
           queue' = <<>> \/ (queue' = queue /\ out' = out),
           \A e \in Entries : out'[e] # out[e] =>
               out[e] = "waiting" /\ out'[e] \in {"blocked", "stopped"}
    PROVE  KeepInv' /\ [Atomic!Next]_<<Durable, req, out>>
<1>1. \A e \in Entries : out'[e] # out[e] => ToldNow(e)
  BY DEF ToldNow
<1>2. \A e \in Entries : Asking(e) => Asking(e)'
  BY DEF Asking
<1>3. Attempting'
  <2>1. current' # None => Asking(current.tok[1])'
    <3>1. current' # None => current'.tok[1] \in Entries /\ Asking(current'.tok[1])
      BY AskersWait
    <3> QED
      BY <1>2, <3>1 DEF Asking
  <2>2. /\ \A e \in Entries : timers'[e] > 0 => Asking(e)'
        /\ \A x \in applying' : Asking(x.tok[1])'
    BY <1>2, AskersWait
  <2> QED
    BY <2>1, <2>2 DEF Attempting
<1>4. Waiting(active, queue)'
  <2>1. \A k \in 1 .. Len(queue) : queue[k] \in Entries /\ queue[k] # None
    BY KeepTypes
  <2> QED
    BY <2>1, AskersWait DEF Waiting
<1> QED
  BY <1>1, <1>3, <1>4, CallbackKeepsCatalog DEF AskerInv

(* apply() settles.                                                        *)
LEMMA AppliedKeepsCatalog ==
    ASSUME RouteInv, KeepInv, NEW x \in applying, ApplyDone(x) \/ ApplyFails(x)
    PROVE  KeepInv' /\ [Atomic!Next]_<<Durable, req, out>>
<1>1. /\ applying' = applying \ {x} /\ UNCHANGED <<diskVars, req>>
      /\ x.tok[1] \in Entries /\ None \notin Entries
      /\ queue \in Seq(Entries) /\ current \in Attempts \cup {None}
      /\ out \in [Entries -> Settled \cup {"new", "waiting"}]
      /\ latest' \in {latest, x.snap}
  BY KeepTypes DEF ApplyDone, ApplyFails, Landed
<1>2. CASE UNCHANGED <<queueVars, out, timers>>
  <2>1. Leaves
    BY <1>1, <1>2 DEF Leaves, queueVars
  <2> QED
    BY <1>1, <1>2, <2>1, OthersKeepCatalog DEF queueVars
<1>3. CASE ApplyFails(x) /\ ~stopped /\ active = x.tok[1]
  <2>1. PICK e, cur : e = x.tok[1] /\ cur = current
    OBVIOUS
  <2>2. FailEntry(e, "failed", cur) /\ latest' = latest
    BY <1>3, <2>1 DEF ApplyFails, EntryOf
  <2> QED
    BY <1>1, <2>1, <2>2, FailKeepsCatalog
<1>4. CASE ApplyDone(x) /\ ~stopped /\ active = x.tok[1]
  <2>1. /\ out' = [out EXCEPT ![active] = Answer(active)] /\ Pump(None, queue, current, retry)
        /\ UNCHANGED timers
    BY <1>4 DEF ApplyDone, EntryOf
  <2>2. \A e \in Entries : out'[e] = IF e = x.tok[1] THEN Answer(e) ELSE out[e]
    BY <1>1, <1>4, <2>1
  <2>3. Answer(active) \in {"ok", "unresolved"}
    BY DEF Answer
  <2>4. out[x.tok[1]] = "waiting" /\ \A k \in 1 .. Len(queue) : queue[k] # x.tok[1]
    BY <1>1, <1>4, AskersWait DEF Waiting
  <2>5. ToldNow(x.tok[1])
    <3>1. Honest(x.tok[1], "ok", x.snap) /\ "ok" \in Successes
      BY DEF KeepInv, HonestInv, Successes
    <3> QED
      BY <1>1, <1>4, <2>2, <2>3, <2>4, <3>1 DEF ToldNow, Honest
  <2>6. \A e \in Entries : out'[e] # out[e] => ToldNow(e)
    BY <2>2, <2>5
  <2>7. \A e \in Entries : Asking(e) => Asking(e)'
    BY <1>4, <2>2, <2>3 DEF Asking
  <2>8. PICK q, cur, rt : q = queue /\ cur = current /\ rt = retry
    OBVIOUS
  <2>9. Waiting(None, q)'
    <3>1. \A k \in 1 .. Len(q) : q[k] \in Entries /\ out[q[k]] = "waiting" /\ q[k] # x.tok[1]
      BY <2>4, <2>8, AskersWait
    <3>2. \A k \in 1 .. Len(q) : out'[q[k]] = "waiting" /\ q[k] # None
      BY <1>1, <2>2, <3>1
    <3> QED
      BY <2>8, <3>2, AskersWait DEF Waiting
  <2>10. /\ cur = None => Running = {}
         /\ \A e \in Entries : timers'[e] > 0 => Asking(e)'
         /\ \A y \in applying' : Asking(y.tok[1])'
         /\ cur # None => Asking(cur.tok[1])'
    BY <1>1, <2>1, <2>7, <2>8, AskersWait, NobodyRuns DEF RouteInv
  <2>11. AskerInv' /\ Started(cur)
    BY <1>1, <2>1, <2>8, <2>9, <2>10, PumpAsks
  <2>12. Leaves
    BY <1>1, <2>8, <2>11 DEF Started, Leaves
  <2>13. \A e \in Entries : out[e] = "new" => out'[e] = "new"
    BY <2>2, <2>4
  <2> QED
    BY <1>1, <2>6, <2>11, <2>12, <2>13, CallbackKeepsCatalog
<1> QED
  BY <1>2, <1>3, <1>4 DEF ApplyDone, ApplyFails, EntryOf, queueVars

(* The first state is one of the atomic catalog.                           *)
LEMMA KeepInit == Init => KeepInv /\ Atomic!Init
<1> SUFFICES ASSUME Init PROVE KeepInv /\ Atomic!Init
  OBVIOUS
<1>1. /\ file = [f \in Files |-> {}] /\ \A i \in Ids : journal[i] = None
      /\ children = {} /\ applying = {} /\ active = None /\ queue = <<>> /\ commits = <<>>
      /\ req = [e \in Entries |-> None] /\ out = [e \in Entries |-> "new"]
      /\ timers = [e \in Entries |-> 0] /\ current = None /\ latest = None
  BY DEF Init, JournalInit, ManagerInit
<1>2. Pending = {} /\ Unfinished = {}
  BY <1>1 DEF Pending, Unfinished
<1>3. Durable = [f \in Files |-> {}]
  BY <1>1, <1>2, DurableIs
<1>4. HonestInv /\ SeenInv /\ DeniedInv /\ AskerInv
  BY <1>1 DEF HonestInv, SeenInv, DeniedInv, AskerInv, Attempting, Waiting
<1> QED
  BY <1>1, <1>3, <1>4, CatalogInit DEF KeepInv, Atomic!Init

(* Every step is one of the atomic catalog, or leaves it alone.            *)
LEMMA KeepStep ==
    ASSUME RouteInv, KeepInv, [Next]_vars
    PROVE  KeepInv' /\ [Atomic!Next]_<<Durable, req, out>>
<1>1. ASSUME UNCHANGED <<diskVars, req, queue, active, timers, out, latest>>,
             children' \subseteq children, applying' \subseteq applying,
             current' = None \/ (current # None /\ current'.tok = current.tok
                                 /\ (current'.err = "conflict" => current.err = "conflict"))
      PROVE  KeepInv' /\ [Atomic!Next]_<<Durable, req, out>>
  BY <1>1, OthersKeepCatalog DEF Leaves
<1>2. current # None => current \in Attempts
  BY KeepTypes
<1>3. ASSUME NEW c \in Running, Killed(c)
      PROVE  KeepInv' /\ [Atomic!Next]_<<Durable, req, out>>
  <2>1. PICK d : d = [c EXCEPT !.pc = "done", !.ans = "failed", !.base = None, !.saved = None]
    OBVIOUS
  <2>2. c \in Children /\ children' = (children \ {c}) \cup {d}
    BY <1>3, <2>1 DEF Killed, Become, RouteInv, JournalTypes, Running
  <2>3. d.pc = "done" /\ d.ans = "failed"
    BY <2>1, <2>2 DEF Children
  <2>4. UNCHANGED <<diskVars, req, queue, active, current, timers, applying, latest, out>>
    BY <1>3 DEF Killed, applyVars
  <2>5. Leaves
    BY <2>2, <2>3, <2>4 DEF Leaves
  <2> QED
    BY <2>4, <2>5, OthersKeepCatalog
<1>4. ASSUME NEW err, Cleanup(err), current # None,
             err = "conflict" => \E c \in children : c.tok = current.tok /\ c.ans = "conflict"
      PROVE  KeepInv' /\ [Atomic!Next]_<<Durable, req, out>>
  <2>1. /\ UNCHANGED <<diskVars, req, queue, active, children, timers, applying, latest, out>>
        /\ current' = [current EXCEPT !.phase = "cleaning", !.err = err]
    BY <1>4 DEF Cleanup, applyVars
  <2>2. current'.tok = current.tok /\ current'.err = err
    BY <1>2, <1>4, <2>1 DEF Attempts
  <2>3. Leaves
    BY <1>4, <2>1, <2>2 DEF Leaves
  <2> QED
    BY <1>4, <2>1, <2>2, <2>3, OthersKeepCatalog
<1>5. ASSUME NEW c \in Result, ResultError(c)
      PROVE  KeepInv' /\ [Atomic!Next]_<<Durable, req, out>>
  <2>1. c \in children /\ current # None /\ current.tok = c.tok
    BY <1>5 DEF ResultError, Result, In
  <2>2. PICK err : Cleanup(err) /\ (err = "conflict" => c.ans = "conflict")
    BY <1>5 DEF ResultError
  <2> QED
    BY <1>4, <2>1, <2>2
<1>6. ASSUME NEW c \in Result, ResultOk(c)
      PROVE  KeepInv' /\ [Atomic!Next]_<<Durable, req, out>>
  <2>1. PICK y : y = [tok |-> c.tok, snap |-> c.snap]
    OBVIOUS
  <2>2. /\ applying' = applying \cup {y} /\ y.tok = c.tok /\ y.snap = c.snap /\ c \in children
        /\ UNCHANGED <<diskVars, req, queue, active, timers, latest, out>>
        /\ children' \subseteq children /\ current' = None /\ c.ans \in Successes
        /\ current # None /\ c.tok = current.tok
    BY <1>6, <2>1 DEF ResultOk, Result, Kept, Succeeded, In
  <2>3. Leaves
    BY <2>2 DEF Leaves
  <2> QED
    BY <2>2, <2>3, OthersKeepCatalog
<1>7. CASE CancelConfirmed
  <2>1. PICK e, err : e = current.tok[1] /\ err = current.err
    OBVIOUS
  <2>2. /\ FailEntry(e, err, None) /\ Running = {} /\ e \in Entries
        /\ UNCHANGED <<diskVars, req, applying, latest>> /\ current # None
    BY <1>7, <2>1, NobodyRuns, KeepTypes DEF CancelConfirmed, EntryOf, In, RouteInv, applyVars
  <2>3. err = "conflict" => Refused(e)
    BY <2>1, <2>2 DEF KeepInv, DeniedInv
  <2> QED
    BY <2>2, <2>3, FailKeepsCatalog
<1>8. CASE CancelUnconfirmed
  <2>1. /\ UNCHANGED <<diskVars, req, children, timers, applying, latest>> /\ current # None
        /\ current' = [current EXCEPT !.phase = "unconfirmed"]
    BY <1>8 DEF CancelUnconfirmed, applyVars, In
  <2>2. /\ active' = None \/ (active' = active /\ out' = out)
        /\ queue' = <<>> \/ (queue' = queue /\ out' = out)
        /\ \A e \in Entries : out'[e] # out[e] => out[e] = "waiting" /\ out'[e] = "blocked"
    BY <1>8 DEF CancelUnconfirmed
  <2>3. current'.tok = current.tok /\ current'.err = current.err
    BY <1>2, <2>1 DEF Attempts
  <2>4. Leaves
    BY <2>1, <2>3 DEF Leaves
  <2> QED
    BY <2>1, <2>2, <2>3, <2>4, OthersKeepCatalog
<1>9. CASE LateExit
  BY <1>1, <1>9 DEF LateExit, applyVars, Kept
<1>10. CASE StopCancelled
  <2>1. /\ UNCHANGED <<diskVars, req, queue, active, timers, applying, latest, out>>
        /\ children' \subseteq children /\ current # None
        /\ current' = None \/ current' = [current EXCEPT !.phase = "unconfirmed"]
    BY <1>10 DEF StopCancelled, applyVars, Kept, In
  <2>2. LET a == [current EXCEPT !.phase = "unconfirmed"]
        IN  a.tok = current.tok /\ a.err = current.err
    BY <1>2, <2>1 DEF Attempts
  <2> QED
    BY <1>1, <2>1, <2>2
<1>11. CASE Stop
  <2>1. /\ UNCHANGED <<diskVars, req, children, applying, latest>> /\ active' = None /\ queue' = <<>>
        /\ timers' = [e \in Entries |-> 0]
        /\ current' = IF In("running") THEN [current EXCEPT !.phase = "cancelling"] ELSE current
    BY <1>11 DEF Stop, applyVars
  <2>2. \A e \in Entries : out'[e] # out[e] => out[e] = "waiting" /\ out'[e] = "stopped"
    BY <1>11 DEF Stop
  <2>3. current' # None =>
            current # None /\ current'.tok = current.tok /\ current'.err = current.err
    <3>1. CASE In("running")
      BY <1>2, <2>1, <3>1 DEF In, Attempts
    <3> QED
      BY <2>1, <3>1
  <2>4. \A e \in Entries : ~(timers'[e] > 0)
    BY <2>1
  <2>5. Leaves
    BY <2>1, <2>3 DEF Leaves
  <2> QED
    BY <2>1, <2>2, <2>3, <2>4, <2>5, OthersKeepCatalog
<1>12. CASE Restart
  <2>1. /\ UNCHANGED <<diskVars, req>> /\ children' = {} /\ applying' = {} /\ current' = None
        /\ active' = None /\ queue' = <<>> /\ timers' = [e \in Entries |-> 0] /\ latest' = None
    BY <1>12 DEF Restart
  <2>2. \A e \in Entries : out'[e] # out[e] => out[e] = "waiting" /\ out'[e] = "lost"
    BY <1>12 DEF Restart
  <2>3. /\ \A e \in Entries : out'[e] # out[e] => ToldNow(e)
        /\ \A e \in Entries : out[e] = "new" => out'[e] = "new"
    BY <2>2 DEF ToldNow
  <2>4. AskerInv' /\ Leaves
    BY <2>1 DEF AskerInv, Attempting, Waiting, Leaves
  <2> QED
    BY <2>1, <2>3, <2>4, CallbackKeepsCatalog
<1>13. CASE StopEnds \/ UNCHANGED vars
  <2>1. UNCHANGED <<diskVars, req, queue, active, current, children, timers, applying, latest, out>>
    BY <1>13 DEF StopEnds, vars, queueVars, applyVars
  <2>2. Leaves
    BY <2>1 DEF Leaves
  <2> QED
    BY <2>1, <2>2, OthersKeepCatalog
<1>14. CASE Timeout
  <2>1. Cleanup("failed") /\ current # None
    BY <1>14 DEF Timeout, In
  <2> QED
    BY <1>4, <2>1
<1>15. ASSUME NEW x \in applying, ApplyDone(x) \/ ApplyFails(x)
       PROVE  KeepInv' /\ [Atomic!Next]_<<Durable, req, out>>
  BY <1>15, AppliedKeepsCatalog
<1>16. CASE Next
  <2>1. CASE Manager
    BY <1>5, <1>6, <1>7, <1>8, <1>9, <1>10, <1>13, <1>14, <1>15, <2>1, RetryKeepsCatalog
       DEF Manager
  <2> QED
    BY <1>3, <1>11, <1>12, <1>16, <2>1, ChildKeepsCatalog, EnqueueKeepsCatalog DEF Next
<1> QED
  BY <1>13, <1>16

(* What holds of the lifecycle, the answers and the directory together.    *)
LEMMA KeepHolds == Spec => []KeepInv /\ [][Atomic!Next]_<<Durable, req, out>>
<1>1. Init => KeepInv
  BY KeepInit
<1>2. RouteInv /\ KeepInv /\ [Next]_vars => KeepInv' /\ [Atomic!Next]_<<Durable, req, out>>
  BY KeepStep
<1> QED
  BY <1>1, <1>2, RouteInvHolds, PTL DEF Spec

(* However a child is interrupted between two files, its journal and its   *)
(* receipt, and however often it is tried again, what recovery makes of    *)
(* the directory is always whole and holds exactly the operations that     *)
(* have a receipt.                                                         *)
THEOREM CatalogIsWhole == Spec => []LogInv
<1>1. KeepInv => LogInv
  BY DEF KeepInv, CatalogInv
<1> QED
  BY <1>1, KeepHolds, PTL

(* An operation commits once, or not at all if its caller was told of a    *)
(* conflict or a full queue.  The retry timer may still be set, an attempt *)
(* of the entry may run again, and a snapshot of it may be under way: it   *)
(* finds the catalog past the one that the caller expects, because the     *)
(* catalog only grows.                                                     *)
THEOREM VerdictIsOne == Spec => []OneVerdict
<1>1. RouteInv /\ KeepInv => RefusedNeverCommits
  <2> SUFFICES ASSUME RouteInv, KeepInv, NEW k \in DOMAIN commits
               PROVE  out[commits[k]] \notin {"busy", "conflict"}
    BY DEF RefusedNeverCommits
  <2>1. k \in 1 .. Len(commits) /\ commits[k] \in Entries
    BY DEF RouteInv, JournalTypes
  <2> QED
    BY <2>1 DEF KeepInv, DeniedInv, Refused
<1>2. RouteInv => CommitsOnce
  BY DEF RouteInv
<1>3. RefusedNeverCommits /\ CommitsOnce => OneVerdict
  BY DEF OneVerdict
<1> QED
  BY <1>1, <1>2, <1>3, RouteInvHolds, KeepHolds, PTL

(* The lifecycle, its children and their journalled writes implement the   *)
(* atomic catalog: a mutation takes effect as a whole and once, whatever   *)
(* is interrupted, and every answer is true when it is given.  The retry   *)
(* timers, of which there can be several from the third attempt on, attempt*)
(* nobody who was turned away.                                             *)
THEOREM CatalogIsKept == Spec => KeepsCatalog
<1>1. Init => Atomic!Init
  BY KeepInit
<1> QED
  BY <1>1, KeepHolds, PTL DEF Spec, KeepsCatalog, Atomic!Spec
=============================================================================
