------------------------ MODULE MCUserAuthorization ------------------------
(* Instances of UserAuthorization for TLC.                                 *)
EXTENDS UserAuthorization, TLC

CONSTANTS t1, t2, t3, t4, t5, k

MCUsers == {"root", "admin_owner", "demo_user", "ada", "ann", "new"}

Acc(role, pwd) ==
  [role |-> role, active |-> TRUE, from |-> 0, until |-> MaxTime + 1, pwd |-> pwd,
   email |-> None, recovery |-> None]

(* An owner under the id that is looked for second, an admin and a         *)
(* customer who has asked for a recovery: k.                               *)
FirstUsers ==
  [u \in Users |->
     CASE u = "admin_owner" -> Acc("owner", "p")
       [] u = "ada" -> Acc("admin", "p")
       [] u = "ann" -> [Acc("customer", "p") EXCEPT
                          !.email = "e", !.recovery = [token |-> k, until |-> RecoveryAge]]
       [] OTHER -> None]

FirstSessions ==
  [t \in Tokens |->
     CASE t = t1 -> [user |-> "admin_owner", at |-> 0]
       [] t = t2 -> [user |-> "ann", at |-> 0]
       [] t = t3 -> [user |-> "ann", at |-> 0]
       [] t = t5 -> [user |-> "ada", at |-> 0]
       [] OTHER -> None]

FirstFiles == [users |-> FirstUsers, sessions |-> FirstSessions]

(* An account is made and used, locked, promoted, renewed, recovered and   *)
(* looked at, by the owner, an admin and its user.                         *)
AccountCalls ==
  [op : {"login"}, user : {"ann"}, pwd : {"p", "q"}]
    \cup [op : {"logout"}, token : {t3}]
    \cup [op : {"recover"}, user : {"ann"}, email : {None}]
    \cup [op : {"recover"}, user : {None}, email : {"e"}]
    \cup [op : {"reset"}, user : {"ann"}, recovery : RecoveryTokens, pwd : {"q"}]
    \cup [op : {"status"}, token : {t1}, user : {"ann"}, active : {FALSE}]
    \cup [op : {"role"}, token : {t1, t5}, user : {"ann"}, role : {"admin"}]
    \cup [op : {"renew"}, token : {t1}, user : {"ann"}, until : {1}]
    \cup [op : {"profile"}, token : {t2}, user : {"ann"}]
    \cup [op : {"revoke"}, token : {t1}, user : {"ann"}]
    \cup [op : {"create"}, token : {t1}, user : {"new"}, pwd : {"p"}, role : {"user"}, from : {1}, until : {2}]
    \cup [op : {"create"}, token : {t5}, user : {"new"}, pwd : {"p"}, role : {"owner"}, from : {0}, until : {1}]
    \cup [op : {"count"}]

(* A login, a logout and two resets with one recovery token.               *)
FileCalls ==
  [op : {"login"}, user : {"ann"}, pwd : {"p"}]
    \cup [op : {"logout"}, token : {t3}]
    \cup [op : {"reset"}, user : {"ann"}, recovery : {k}, pwd : {"q", "w"}]

Symmetry == Permutations(Requests)
=============================================================================
