--------------------------- MODULE AccountsProofs ---------------------------
(***************************************************************************)
(* Proofs about Accounts and PermissionCache: the table users under        *)
(* overlapping requests, and the permissions cached beside it.             *)
(***************************************************************************)
EXTENDS PermissionCache, TLAPS

-----------------------------------------------------------------------------
(* Accounts *)

Writing == {"save", "update"}

\* What a request is at, by its kind.
JobOK(r) == LET j == job[r] IN
    /\ j.kind = "none" => j.at = "idle"
    /\ j.kind \in {"login", "self", "put", "assign"} => j.at \in Writing \cup {"answer"}
    /\ j.kind = "oauth" => j.at \in Writing \cup {"exchange", "answer"}
    /\ j.kind = "delete" => j.at = "remove"
    /\ j.kind = "token" => j.at = "token"
    /\ j.kind = "seed" =>
        /\ j.at \in Writing \cup {"demo", "answer"} /\ j.of = Admin
        /\ j.at # "demo" => j.todo = {}
    /\ j.kind = "role" => j.at \in {"saveRole", "listRole", "clearRole"} /\ j.role \in Roles
    /\ j.kind = "drop" =>
        /\ j.at \in Writing \cup {"list", "next", "clear"}
        /\ j.at = "list" => j.todo = {}
        /\ j.at \notin {"list", "next"} => j.of \in j.todo

\* The accounts of which a request holds a copy.
Holds(r, u) == u \in Scope(r) /\ job[r].at # "demo"

\* A column nobody has asked to change is as it was settled, in the row and in every copy.
Unasked(u, c) ==
    <<u, c>> \notin asked =>
        /\ user[u][c] = base[u][c]
        /\ \A r \in Reqs : Holds(r, u) =>
            /\ job[r].copies[u][c] = base[u][c]
            /\ job[r].at = "update" /\ job[r].of = u => job[r].selected[c] = base[u][c]

AsksAll(r) ==
    job[r].kind \in {"seed", "delete"} => \A u \in Scope(r), c \in Columns : <<u, c>> \in asked

\* A request that has an account to itself writes its copy.
Sole(r, u) == u \in Scope(r) /\ (r \in lone \/ u \notin raced)
Knows(r, u) == LET j == job[r] copy == j.copies[u] IN
    /\ Others(r, u) = {}
    /\ j.at # "demo" => copy.gen # 0
    /\ j.at = "answer" \/ (j.at = "clear" /\ j.of = u) => user[u] = copy
    /\ j.at = "update" /\ j.of = u => j.selected = user[u]
    /\ j.at \in {"remove", "next"} \/ (j.at \in Writing \cup {"clear"} /\ j.of # u) =>
          user[u].gen = copy.gen
    /\ j.at \in Writing =>
        /\ user[u].gen \in {0, copy.gen}
        /\ j.kind \notin {"put", "assign", "drop"} /\ Found(u) =>
             copy.custom = user[u].custom /\ copy.role \in {user[u].role, "admin"}

\* An account that no two requests met has the last gen.
Latest(u) ==
    /\ user[u].gen <= born[u]
    /\ u \notin raced =>
        /\ Found(u) => user[u].gen = born[u]
        /\ \A r \in Reqs : Holds(r, u) => job[r].copies[u].gen = born[u]
        /\ \A r, q \in Reqs : u \in Scope(r) /\ u \in Scope(q) => r = q

AdminRow(row) == row.gen # 0 /\ row.active /\ row.pw # 0 /\ row.role = "admin"
SeedOK ==
    /\ \A r \in Reqs : job[r].kind = "seed" /\ job[r].at # "demo" => AdminRow(job[r].copies[Admin])
    /\ seeded => AdminRow(user[Admin]) /\ \A r \in Reqs : Admin \notin Scope(r)

Exchanging(r) == job[r].kind = "token"
CodeOK ==
    /\ issued <= 1
    /\ code # NoCode => issued = 0 /\ started > 0 /\ \A r \in Reqs : ~Exchanging(r)
    /\ \A r, q \in Reqs : Exchanging(r) /\ Exchanging(q) => r = q
    /\ \A r \in Reqs : Exchanging(r) => issued = 0 /\ started > 0

AccountsIInv ==
    /\ AccountsTypeOK
    /\ \A r \in Reqs : JobOK(r) /\ AsksAll(r)
    /\ \A u \in Users : Latest(u) /\ \A c \in Columns : Unasked(u, c)
    /\ \A r \in Reqs, u \in Users : Sole(r, u) => Knows(r, u)
    /\ \A r \in Reqs, u \in Users : Holds(r, u) => job[r].copies[u].gen <= born[u]
    /\ SeedOK /\ CodeOK

\* A change of u is under way of which r will clear the entry in the cache.
Excuses(r, u) == LET j == job[r] IN
    \/ j.kind \in {"put", "assign"} /\ j.at = "answer" /\ j.of = u
    \/ j.at = "clear" /\ j.of = u
    \/ j.at = "listRole" /\ user[u].custom = j.role
    \/ j.at = "clearRole" /\ u \in j.todo /\ j.copies[u].gen = user[u].gen

\* What a step of r makes of an account: it leaves it, removes it, inserts it, makes an
\* administrator of it, or will clear its entry.
Turns(r, u) ==
    \/ user'[u] = user[u]
    \/ u \in Scope(r) /\ ~Holds(r, u)' /\ user'[u].gen = 0
    \/ ~Found(u) /\ Holds(r, u) /\ user'[u].gen = born[u]
    \/ /\ user'[u].gen = user[u].gen /\ user'[u].custom = user[u].custom
       /\ user'[u].role \in {user[u].role, "admin"}
    \/ user'[u].gen # 0 /\ Excuses(r, u)'

\* A request takes hold of an account that does not exist when it has a gen of its own for it.
Makes(r, u) ==
    user'[u].gen = 0 /\ Holds(r, u)' => born'[u] = born[u] + 1 \/ (~Found(u) /\ Holds(r, u))

Tame(r) ==
    /\ \A q \in Reqs \ {r} : job'[q] = job[q]
    /\ raced \subseteq raced'
    /\ \A u \in Users : born'[u] \in {born[u], born[u] + 1}
    /\ \A u \in Users \ raced' : Turns(r, u) /\ Makes(r, u)

Kept(r) == AccountsIInv' /\ Tame(r)

LEMMA AccountsIInvImplies == AccountsIInv => AccountsInv
<1> SUFFICES ASSUME AccountsIInv PROVE AccountsInv
  OBVIOUS
<1>1. NothingUnasked
  BY DEF AccountsIInv, Unasked, NothingUnasked
<1>2. SeedingRepairs /\ CodeUsedOnce
  BY DEF AccountsIInv, SeedOK, CodeOK, AdminRow, SeedingRepairs, CodeUsedOnce
<1> QED
  BY <1>1, <1>2 DEF AccountsInv

LEMMA Rows ==
    /\ NoUser \in Row /\ NoJob \in Job /\ NoCode \in [of : Users, gen : 0 .. MaxGen]
    /\ NoUser.gen = 0
    /\ NoJob.kind = "none" /\ NoJob.at = "idle" /\ NoJob.of = Admin /\ NoJob.todo = {}
    /\ NoJob.role = NoRole /\ NoJob.copies = [u \in Users |-> NoUser] /\ NoJob.selected = NoUser
<1>1. 0 \in 0 .. MaxGen /\ 0 \in 0 .. MaxPw
  BY AccountsAssumption
<1>2. NoUser \in Row /\ NoUser.gen = 0
  BY <1>1 DEF NoUser, Row
<1>3. NoJob \in Job
  BY <1>2, AccountsAssumption DEF NoJob, Job, Kinds, Stages
<1> QED
  BY <1>1, <1>2, <1>3, AccountsAssumption DEF NoCode, NoJob

LEMMA AccountsInitIInv == AccountsInit => AccountsIInv
<1> SUFFICES ASSUME AccountsInit PROVE AccountsIInv
  OBVIOUS
<1>1. 0 \in 0 .. 2 * MaxRequests /\ 1 \in 0 .. MaxGen
  BY AccountsAssumption
<1>2. AccountsTypeOK
  BY <1>1, Rows DEF AccountsInit, AccountsTypeOK
<1>3. \A r \in Reqs : job[r] = NoJob /\ Scope(r) = {}
  BY Rows DEF AccountsInit, Scope
<1>4. \A r \in Reqs : JobOK(r) /\ AsksAll(r)
  BY <1>3, Rows DEF JobOK, AsksAll
<1>5. \A u \in Users : user[u].gen = 1 /\ born[u] = 1 /\ base[u] = user[u]
  BY DEF AccountsInit
<1>6. \A u \in Users : Latest(u) /\ \A c \in Columns : Unasked(u, c)
  BY <1>3, <1>5 DEF Latest, Unasked, Holds
<1>7. SeedOK /\ CodeOK
  BY <1>3, Rows DEF AccountsInit, SeedOK, CodeOK, Exchanging
<1> QED
  BY <1>2, <1>3, <1>4, <1>6, <1>7 DEF AccountsIInv, Sole, Holds

\* What save writes is a row again; when nobody wrote since its selection it is the copy.
LEMMA SavedUser ==
    ASSUME NEW row \in Row, NEW sel \in Row, NEW copy \in Row
    PROVE  /\ Saved(row, sel, copy) \in Row
           /\ \A c \in Columns : Saved(row, sel, copy)[c] = IF copy[c] # sel[c] THEN copy[c] ELSE row[c]
           /\ sel = row => Saved(row, sel, copy) = copy
<1>1. DOMAIN row = Columns
  BY DEF Row, Columns
<1>2. Saved(row, sel, copy) = [c \in Columns |-> IF copy[c] # sel[c] THEN copy[c] ELSE row[c]]
  BY <1>1 DEF Saved
<1>3. Saved(row, sel, copy) \in Row
  BY <1>2 DEF Row, Columns
<1>4. ASSUME sel = row PROVE Saved(row, sel, copy) = copy
  BY <1>2, <1>4 DEF Row, Columns
<1> QED
  BY <1>2, <1>3, <1>4

\* A request that does nothing keeps what it may write.
LEMMA OthersStay ==
    ASSUME NEW r \in Reqs, \A q \in Reqs \ {r} : job'[q] = job[q]
    PROVE  /\ \A q \in Reqs \ {r} : Scope(q)' = Scope(q) /\ \A u : Holds(q, u)' <=> Holds(q, u)
           /\ \A u : Others(r, u)' = Others(r, u)
<1>1. \A q \in Reqs \ {r} : Scope(q)' = Scope(q)
  BY DEF Scope
<1> QED
  BY <1>1 DEF Holds, Others

\* A copy that a request has just made of an account, or of one it is about to make.
Fresh(j, u, columns) == LET copy == j.copies[u] IN
    /\ \A c \in Columns \ columns : copy[c] = user[u][c]
    /\ \/ Found(u) /\ copy.gen = user[u].gen /\ born'[u] = born[u]
       \/ ~Found(u) /\ copy.gen = born'[u] /\ born'[u] = born[u] + 1 /\ j.at \in Writing
    /\ j.kind \notin {"put", "assign", "drop"} /\ Found(u) =>
          copy.custom = user[u].custom /\ copy.role \in {user[u].role, "admin"}

\* What a request becomes when it joins the writers of us.
Joins(r, j, us, columns) ==
    /\ Join(r, j, us, columns)
    /\ Scope(r) = {} /\ us = Scope(r)' /\ us \subseteq Users /\ columns \subseteq Columns
    /\ UNCHANGED <<user, base>>
    /\ \A u \in Users \ us : born'[u] = born[u]
    /\ j.kind \in {"seed", "delete"} => columns = Columns
    /\ j.at \notin {"update", "answer", "clear"} /\ (j.kind = "seed" => j.at = "demo")
    /\ j.at = "save" => us = {j.of}
    /\ IF j.at = "demo" THEN born' = born ELSE \A u \in us : Fresh(j, u, columns)

LEMMA JoinKeeps ==
    ASSUME AccountsIInv, NEW r \in Reqs, NEW j \in Job, NEW us, NEW columns, Joins(r, j, us, columns),
           AccountsTypeOK', JobOK(r)', CodeOK'
    PROVE  Kept(r)
<1> DEFINE shared == {u \in us : Others(r, u) # {}}
<1>1. /\ job'[r] = j /\ \A q \in Reqs \ {r} : job'[q] = job[q]
      /\ asked' = asked \cup (us \X columns) /\ raced' = raced \cup shared
      /\ lone' = (IF shared = {} THEN lone \cup {r} ELSE lone \ {r})
                    \ UNION {Others(r, u) : u \in shared}
      /\ seeded' = (seeded /\ Admin \notin us)
      /\ UNCHANGED <<user, base>>
  BY DEF Joins, Join, AccountsIInv, AccountsTypeOK
<1>2. /\ \A q \in Reqs \ {r} : Scope(q)' = Scope(q) /\ \A u : Holds(q, u)' <=> Holds(q, u)
      /\ \A u : Others(r, u)' = Others(r, u)
  BY <1>1, OthersStay
<1>3. Scope(r)' = us /\ Scope(r) = {} /\ us \subseteq Users
  BY DEF Joins
<1>4. \A u \in Users : born'[u] = born[u] \/ (u \in us /\ born'[u] = born[u] + 1 /\ ~Found(u))
  BY DEF Joins, Fresh
<1>5. \A u \in Users : /\ born[u] \in Nat /\ born'[u] \in Nat /\ born'[u] >= born[u]
                       /\ user[u].gen \in Nat /\ user[u].gen <= born[u]
  <2>1. \A u \in Users : born[u] \in Nat /\ user[u].gen \in Nat /\ user[u].gen <= born[u]
    BY AccountsAssumption DEF AccountsIInv, AccountsTypeOK, Row, Latest
  <2> QED
    BY <1>4, <2>1
<1>6. ASSUME NEW u \in us, j.at # "demo" PROVE Fresh(j, u, columns)
  BY <1>6 DEF Joins
<1>7. \A q \in Reqs : JobOK(q)'
  BY <1>1 DEF AccountsIInv, JobOK
<1>8. \A q \in Reqs : AsksAll(q)'
  <2>1. \A q \in Reqs \ {r} : AsksAll(q)'
    BY <1>1, <1>2 DEF AccountsIInv, AsksAll
  <2>2. AsksAll(r)'
    BY <1>1, <1>3 DEF AsksAll, Joins
  <2> QED
    BY <2>1, <2>2
<1>9. ASSUME NEW u \in Users, NEW c \in Columns PROVE Unasked(u, c)'
  <2> SUFFICES ASSUME <<u, c>> \notin asked'
               PROVE  /\ user[u][c] = base[u][c]
                      /\ \A q \in Reqs : Holds(q, u)' =>
                          /\ job'[q].copies[u][c] = base[u][c]
                          /\ job'[q].at = "update" /\ job'[q].of = u =>
                                job'[q].selected[c] = base[u][c]
    BY <1>1 DEF Unasked
  <2>1. <<u, c>> \notin asked /\ (u \in us => c \notin columns)
    BY <1>1
  <2>2. user[u][c] = base[u][c]
    BY <2>1 DEF AccountsIInv, Unasked
  <2>3. ASSUME NEW q \in Reqs \ {r}, Holds(q, u)'
        PROVE  /\ job'[q].copies[u][c] = base[u][c]
               /\ job'[q].at = "update" /\ job'[q].of = u => job'[q].selected[c] = base[u][c]
    BY <1>1, <1>2, <2>1, <2>3 DEF AccountsIInv, Unasked
  <2>4. ASSUME Holds(r, u)'
        PROVE  job'[r].copies[u][c] = base[u][c] /\ job'[r].at # "update"
    <3>1. u \in us /\ j.at # "demo"
      BY <1>1, <1>3, <2>4 DEF Holds
    <3> QED
      BY <1>1, <1>6, <2>1, <2>2, <3>1 DEF Fresh, Joins
  <2> QED
    BY <2>2, <2>3, <2>4
<1>10. ASSUME NEW u \in Users PROVE Latest(u)'
  <2>1. user'[u].gen <= born'[u]
    BY <1>1, <1>5
  <2> SUFFICES ASSUME u \notin raced'
               PROVE  /\ Found(u) => user[u].gen = born'[u]
                      /\ \A q \in Reqs : Holds(q, u)' => job'[q].copies[u].gen = born'[u]
                      /\ \A p, q \in Reqs : u \in Scope(p)' /\ u \in Scope(q)' => p = q
    BY <1>1, <2>1 DEF Latest, Found
  <2>2. u \notin raced /\ (u \in us => Others(r, u) = {})
    BY <1>1
  <2>3. Latest(u)
    BY DEF AccountsIInv
  <2>4. Found(u) => user[u].gen = born'[u]
    BY <1>4, <2>2, <2>3 DEF Latest
  <2>5. CASE u \notin us
    <3>1. \A q \in Reqs : /\ u \in Scope(q)' => q # r /\ u \in Scope(q)
                          /\ Holds(q, u)' => q # r /\ Holds(q, u)
      BY <1>2, <1>3, <2>5 DEF Holds
    <3> QED
      BY <1>1, <1>4, <2>2, <2>3, <2>4, <2>5, <3>1 DEF Latest
  <2>6. CASE u \in us
    <3>1. \A q \in Reqs : u \in Scope(q)' => q = r
      BY <1>2, <2>2, <2>6 DEF Others
    <3>2. ASSUME Holds(r, u)' PROVE job'[r].copies[u].gen = born'[u]
      <4>1. Fresh(j, u, columns)
        BY <1>1, <1>6, <2>6, <3>2 DEF Holds
      <4> QED
        BY <1>1, <2>2, <2>3, <2>4, <4>1 DEF Fresh, Latest
    <3> QED
      BY <2>4, <3>1, <3>2 DEF Holds
  <2> QED
    BY <2>5, <2>6
<1>11. ASSUME NEW q \in Reqs, NEW u \in Users, Sole(q, u)' PROVE Knows(q, u)'
  <2>1. CASE q = r
    <3>1. u \in us
      BY <1>3, <1>11, <2>1 DEF Sole
    <3>2. Others(r, u)' = {}
      BY <1>1, <1>2, <1>11, <2>1, <3>1 DEF Sole
    <3>3. ASSUME j.at # "demo" PROVE Fresh(j, u, columns)
      BY <1>6, <3>1, <3>3
    <3>4. j.at \notin {"update", "answer", "clear"} /\ (j.at = "save" => u = j.of)
      BY <3>1 DEF Joins
    <3>5. CASE j.at = "demo"
      BY <1>1, <2>1, <3>2, <3>5 DEF Knows, Writing
    <3>6. CASE j.at # "demo"
      <4>1. /\ j.copies[u].gen # 0 /\ user[u].gen \in {0, j.copies[u].gen}
            /\ j.at \in {"remove", "next"} => user[u].gen = j.copies[u].gen
        BY <1>5, <3>3, <3>6 DEF Fresh, Found, Writing
      <4>2. j.kind \notin {"put", "assign", "drop"} /\ Found(u) =>
                j.copies[u].custom = user[u].custom /\ j.copies[u].role \in {user[u].role, "admin"}
        BY <3>3, <3>6 DEF Fresh
      <4> QED
        BY <1>1, <2>1, <3>2, <3>4, <4>1, <4>2 DEF Knows, Found, Writing
    <3> QED
      BY <3>5, <3>6
  <2>2. CASE q # r
    <3>1. u \in Scope(q) /\ (q \in lone \/ u \notin raced)
      BY <1>1, <1>2, <1>11, <2>2 DEF Sole
    <3>2. Knows(q, u)
      BY <3>1 DEF AccountsIInv, Sole
    <3>3. u \notin us
      <4> SUFFICES ASSUME u \in us PROVE FALSE
        OBVIOUS
      <4>1. q \in Others(r, u) /\ u \in shared
        BY <2>2, <3>1 DEF Others
      <4>2. q \notin lone' /\ u \in raced'
        BY <1>1, <4>1
      <4> QED
        BY <1>11, <4>2 DEF Sole
    <3>4. Others(q, u)' = {}
      BY <1>2, <1>3, <3>2, <3>3 DEF Knows, Others
    <3> QED
      BY <1>1, <2>2, <3>2, <3>4 DEF Knows, Found
  <2> QED
    BY <2>1, <2>2
<1>12. ASSUME NEW q \in Reqs, NEW u \in Users, Holds(q, u)' PROVE job'[q].copies[u].gen <= born'[u]
  <2>1. CASE q = r
    <3>1. Fresh(j, u, columns)
      BY <1>1, <1>3, <1>6, <1>12, <2>1 DEF Holds
    <3> QED
      BY <1>1, <1>5, <2>1, <3>1 DEF Fresh
  <2>2. CASE q # r
    <3>1. job[q].copies[u].gen <= born[u] /\ job[q].copies[u].gen \in Nat
      BY <1>2, <1>12, <2>2, AccountsAssumption DEF AccountsIInv, AccountsTypeOK, Job, Row
    <3> QED
      BY <1>1, <1>5, <2>2, <3>1
  <2> QED
    BY <2>1, <2>2
<1>13. SeedOK'
  BY <1>1, <1>2, <1>3 DEF AccountsIInv, SeedOK, Joins
<1>14. Tame(r)
  <2>1. \A u \in Users : Turns(r, u)
    BY <1>1 DEF Turns
  <2>2. ASSUME NEW u \in Users PROVE Makes(r, u)
    <3> SUFFICES ASSUME Holds(r, u)', ~Found(u) PROVE born'[u] = born[u] + 1
      BY <1>1 DEF Makes, Found
    <3>1. Fresh(j, u, columns)
      BY <1>1, <1>3, <1>6 DEF Holds
    <3> QED
      BY <3>1 DEF Fresh
  <2>3. \A u \in Users : born'[u] \in {born[u], born[u] + 1}
    BY <1>4
  <2> QED
    BY <1>1, <2>1, <2>2, <2>3 DEF Tame
<1> QED
  BY <1>7, <1>8, <1>9, <1>10, <1>11, <1>12, <1>13, <1>14 DEF AccountsIInv, Kept

\* A request that stops being a writer of some accounts: those it was the last writer of are settled.
Settles(r) == LET lost == {u \in Scope(r) \ Scope(r)' : Others(r, u) = {}} IN
    /\ \A q \in Reqs \ {r} : job'[q] = job[q]
    /\ Scope(r)' \subseteq Scope(r)
    /\ \A u \in Users : base'[u] = IF u \in lost THEN user'[u] ELSE base[u]
    /\ asked' = {a \in asked : a[1] \notin lost}
    /\ lone' \subseteq lone /\ raced \subseteq raced' /\ born' = born
    /\ \A u \in Users :
        \/ user'[u] = user[u]
        \/ u \in Scope(r) \ Scope(r)' /\ user'[u] = NoUser /\ \A c \in Columns : <<u, c>> \in asked
    /\ Scope(r)' # {} => LET j == job'[r] IN
        /\ j.kind = job[r].kind /\ j.copies = job[r].copies
        /\ \/ j.at = "demo" /\ job[r].at = "demo"
           \/ j.at = "next" /\ job[r].at = "clear" /\ job[r].of \notin Scope(r)'

LEMMA SettleKeeps ==
    ASSUME AccountsIInv, NEW r \in Reqs, Settles(r), AccountsTypeOK', JobOK(r)', CodeOK',
           job'[r].kind = "seed" => job'[r].at = "demo",
           seeded' => AdminRow(user'[Admin]) /\ \A q \in Reqs : Admin \notin Scope(q)'
    PROVE  Kept(r)
<1> DEFINE lost == {u \in Scope(r) \ Scope(r)' : Others(r, u) = {}}
<1>1. /\ \A q \in Reqs \ {r} : job'[q] = job[q]
      /\ Scope(r)' \subseteq Scope(r)
      /\ \A u \in Users : base'[u] = IF u \in lost THEN user'[u] ELSE base[u]
      /\ asked' = {a \in asked : a[1] \notin lost}
      /\ lone' \subseteq lone /\ raced \subseteq raced' /\ born' = born
  BY DEF Settles
<1>2. /\ \A q \in Reqs \ {r} : Scope(q)' = Scope(q) /\ \A u : Holds(q, u)' <=> Holds(q, u)
      /\ \A u : Others(r, u)' = Others(r, u)
  BY <1>1, OthersStay
<1>3. ASSUME NEW u \in Users
      PROVE  \/ user'[u] = user[u]
             \/ u \in Scope(r) \ Scope(r)' /\ user'[u] = NoUser /\ \A c \in Columns : <<u, c>> \in asked
  BY DEF Settles
<1>4. ASSUME NEW u \in Scope(r)'
      PROVE  /\ job'[r].kind = job[r].kind /\ job'[r].copies = job[r].copies
             /\ Holds(r, u)' => Holds(r, u)
             /\ \/ job'[r].at = "demo"
                \/ job'[r].at = "next" /\ job[r].at = "clear" /\ job[r].of # u
  BY <1>1 DEF Settles, Holds
<1>5. \A q \in Reqs : JobOK(q)'
  BY <1>1 DEF AccountsIInv, JobOK
<1>6. \A q \in Reqs, u \in Users : u \in Scope(q)' => u \notin lost /\ u \in Scope(q)
  BY <1>1, <1>2 DEF Others
<1>7. \A q \in Reqs, u \in Users : Holds(q, u)' =>
        Holds(q, u) /\ job'[q].copies = job[q].copies /\ (q # r => job'[q] = job[q])
  BY <1>1, <1>2, <1>4 DEF Holds
<1>8. ASSUME NEW q \in Reqs PROVE AsksAll(q)'
  <2> SUFFICES ASSUME job'[q].kind \in {"seed", "delete"}, NEW u \in Scope(q)', NEW c \in Columns
               PROVE  <<u, c>> \in asked'
    BY DEF AsksAll
  <2>1. job[q].kind = job'[q].kind
    BY <1>1, <1>4
  <2>2. u \in Scope(q) /\ u \notin lost
    BY <1>1, <1>2, <1>6 DEF Others
  <2> QED
    BY <1>1, <2>1, <2>2 DEF AccountsIInv, AsksAll
<1>9. ASSUME NEW u \in Users, NEW c \in Columns PROVE Unasked(u, c)'
  <2>1. CASE u \in lost
    BY <1>1, <1>6, <2>1 DEF Unasked, Holds
  <2>2. CASE u \notin lost /\ <<u, c>> \notin asked'
    <3>1. <<u, c>> \notin asked /\ base'[u] = base[u] /\ user'[u] = user[u]
      BY <1>1, <1>3, <2>2
    <3>2. Unasked(u, c)
      BY DEF AccountsIInv
    <3>3. \A q \in Reqs : Holds(q, u)' /\ job'[q].at = "update" => q # r /\ job'[q] = job[q]
      BY <1>4, <1>7 DEF Holds
    <3> QED
      BY <1>7, <3>1, <3>2, <3>3 DEF Unasked
  <2>3. CASE <<u, c>> \in asked'
    BY <2>3 DEF Unasked
  <2> QED
    BY <2>1, <2>2, <2>3
<1>10. ASSUME NEW u \in Users PROVE Latest(u)'
  <2>1. Latest(u) /\ born[u] \in Nat
    BY AccountsAssumption DEF AccountsIInv, AccountsTypeOK
  <2>2. user'[u] = user[u] \/ user'[u].gen = 0
    BY <1>3, Rows
  <2> QED
    BY <1>1, <1>6, <1>7, <2>1, <2>2 DEF Latest, Found
<1>11. ASSUME NEW q \in Reqs, NEW u \in Users, Sole(q, u)' PROVE Knows(q, u)'
  <2>1. Sole(q, u) /\ u \in Scope(q)'
    BY <1>1, <1>6, <1>11 DEF Sole
  <2>2. Knows(q, u)
    BY <2>1 DEF AccountsIInv
  <2>3. Others(q, u)' = {}
    BY <1>6, <2>2 DEF Knows, Others
  <2>4. CASE q = r
    <3>1. user'[u] = user[u]
      BY <1>3, <2>1, <2>4
    <3> QED
      BY <1>4, <2>1, <2>2, <2>3, <2>4, <3>1 DEF Knows, Writing
  <2>5. CASE q # r
    <3>1. user'[u] = user[u] /\ job'[q] = job[q]
      BY <1>1, <1>3, <2>1, <2>2, <2>5 DEF Knows, Others, Sole
    <3> QED
      BY <2>2, <2>3, <3>1 DEF Knows, Found
  <2> QED
    BY <2>4, <2>5
<1>12. ASSUME NEW q \in Reqs, NEW u \in Users, Holds(q, u)' PROVE job'[q].copies[u].gen <= born'[u]
  BY <1>1, <1>7, <1>12 DEF AccountsIInv
<1>13. SeedOK'
  BY <1>1 DEF AccountsIInv, SeedOK
<1>14. Tame(r)
  <2>1. ASSUME NEW u \in Users PROVE Turns(r, u)
    BY <1>3, <2>1, Rows DEF Turns, Holds
  <2>2. ASSUME NEW u \in Users, Holds(r, u)' PROVE Holds(r, u) /\ user'[u] = user[u]
    BY <1>3, <1>7, <2>2 DEF Holds
  <2>3. \A u \in Users : Makes(r, u)
    BY <2>2 DEF Makes, Found
  <2> QED
    BY <1>1, <2>1, <2>3 DEF Tame
<1> QED
  BY <1>5, <1>8, <1>9, <1>10, <1>11, <1>12, <1>13, <1>14 DEF AccountsIInv, Kept

-----------------------------------------------------------------------------
(* Accepting a request *)

LEMMA Bounds ==
    ASSUME AccountsIInv
    PROVE  /\ \A u \in Users : /\ born[u] \in 0 .. MaxGen /\ born[u] \in Nat
                               /\ user[u] \in Row /\ user[u].gen \in Nat /\ user[u].gen <= born[u]
           /\ \A r \in Reqs : job[r] \in Job
           /\ started \in Nat
<1>1. \A u \in Users : born[u] \in 0 .. MaxGen /\ born[u] \in Nat /\ user[u] \in Row
  BY AccountsAssumption DEF AccountsIInv, AccountsTypeOK
<1>2. \A u \in Users : user[u].gen \in Nat /\ user[u].gen <= born[u]
  BY <1>1, AccountsAssumption DEF AccountsIInv, Latest, Row
<1> QED
  BY <1>1, <1>2, AccountsAssumption DEF AccountsIInv, AccountsTypeOK

LEMMA JoinType ==
    ASSUME AccountsTypeOK, NEW r \in Reqs, NEW j \in Job, NEW us \in SUBSET Users,
           NEW columns \in SUBSET Columns, Join(r, j, us, columns), UNCHANGED <<user, base, defined>>,
           born' \in [Users -> 0 .. MaxGen], started' \in 0 .. 2 * MaxRequests,
           code' \in [of : Users, gen : 0 .. MaxGen], issued' \in 0 .. 2 * MaxRequests
    PROVE  /\ AccountsTypeOK'
           /\ job'[r] = j /\ \A q \in Reqs \ {r} : job'[q] = job[q]
<1>1. job' = [job EXCEPT ![r] = j] /\ job' \in [Reqs -> Job]
  BY DEF AccountsTypeOK, Join
<1>2. asked' \subseteq Users \X Columns /\ raced' \subseteq Users
  BY DEF AccountsTypeOK, Join
<1>3. lone' \subseteq Reqs /\ seeded' \in BOOLEAN
  BY DEF AccountsTypeOK, Join
<1> QED
  BY <1>1, <1>2, <1>3 DEF AccountsTypeOK

LEMMA AcceptKeeps ==
    ASSUME AccountsIInv, NEW r \in Reqs, NEW j \in Job, NEW us \in SUBSET Users,
           NEW columns \in SUBSET Columns, Accept(r, j, us, columns), j.kind # "token",
           UNCHANGED <<user, base, defined, code, issued>>, born' \in [Users -> 0 .. MaxGen],
           job'[r] = j => JobOK(r)' /\ Scope(r)' = us,
           \A u \in Users \ us : born'[u] = born[u],
           j.kind \in {"seed", "delete"} => columns = Columns,
           j.at \notin {"update", "answer", "clear"}, j.kind = "seed" => j.at = "demo",
           j.at = "save" => us = {j.of},
           IF j.at = "demo" THEN born' = born ELSE \A u \in us : Fresh(j, u, columns)
    PROVE  Kept(r)
<1>1. Join(r, j, us, columns) /\ job[r].at = "idle" /\ started' \in 0 .. 2 * MaxRequests /\ started' > 0
  <2>1. started \in Nat
    BY Bounds
  <2>2. started' = started + 1 \/ started' = started + 2
    BY DEF Accept, Count
  <2>3. started' <= 2 * MaxRequests
    BY DEF Accept, Count
  <2> QED
    BY <2>1, <2>2, <2>3, AccountsAssumption DEF Accept
<1>2. /\ AccountsTypeOK'
      /\ job'[r] = j /\ \A q \in Reqs \ {r} : job'[q] = job[q]
  BY <1>1, JoinType DEF AccountsIInv, AccountsTypeOK
<1>3. Scope(r) = {} /\ ~Exchanging(r)
  <2>1. JobOK(r) /\ job[r].kind \in Kinds
    BY Bounds DEF AccountsIInv, Job
  <2>2. job[r].kind = "none"
    BY <1>1, <2>1 DEF JobOK, Kinds, Writing
  <2> QED
    BY <1>1, <2>2 DEF Scope, Exchanging
<1>4. Joins(r, j, us, columns)
  BY <1>1, <1>2, <1>3 DEF Joins
<1>5. \A q \in Reqs : Exchanging(q)' <=> Exchanging(q)
  BY <1>2, <1>3 DEF Exchanging
<1>6. CodeOK'
  BY <1>1, <1>5 DEF CodeOK, AccountsIInv
<1> QED
  BY <1>2, <1>4, <1>6, JoinKeeps

LEMMA CopyIs ==
    ASSUME NEW k \in Kinds, NEW u \in Users, NEW row \in Row
    PROVE  /\ Copy(k, u, row).kind = k /\ Copy(k, u, row).at = "save" /\ Copy(k, u, row).of = u
           /\ Copy(k, u, row).copies[u] = row
BY Rows DEF Copy, NoJob

LEMMA CopyType ==
    ASSUME NEW k \in Kinds, NEW u \in Users, NEW row \in Row
    PROVE  Copy(k, u, row) \in Job
<1>1. NoJob \in Job /\ NoJob.copies = [v \in Users |-> NoUser] /\ NoUser \in Row
  BY Rows
<1>2. [NoJob.copies EXCEPT ![u] = row] \in [Users -> Row]
  BY <1>1
<1> QED
  BY <1>1, <1>2 DEF Copy, Job, Stages

LEMMA CopyKeeps ==
    ASSUME AccountsIInv, NEW r \in Reqs, NEW k \in {"login", "self", "put", "assign", "delete"},
           NEW u \in Users, NEW row \in Row, NEW columns \in SUBSET Columns, NEW j,
           IF k = "delete" THEN j = [Copy(k, u, row) EXCEPT !.at = "remove"] /\ columns = Columns
                           ELSE j = Copy(k, u, row),
           Accept(r, j, {u}, columns), UNCHANGED <<user, base, defined, code, issued>>,
           born' \in [Users -> 0 .. MaxGen], \A v \in Users \ {u} : born'[v] = born[v],
           Fresh(j, u, columns)
    PROVE  Kept(r)
<1> DEFINE c == Copy(k, u, row)
<1>1. j \in Job /\ j.kind = k /\ j.of = u /\ j.at = IF k = "delete" THEN "remove" ELSE "save"
  <2>1. c \in Job /\ c.kind = k /\ c.at = "save" /\ c.of = u
    BY CopyIs, CopyType DEF Kinds
  <2>2. j = IF k = "delete" THEN [c EXCEPT !.at = "remove"] ELSE c
    OBVIOUS
  <2> HIDE DEF c
  <2> QED
    BY <2>1, <2>2 DEF Job, Stages
<1>2. ASSUME job'[r] = j PROVE JobOK(r)' /\ Scope(r)' = {u}
  BY <1>1, <1>2 DEF JobOK, Scope, Writing
<1>3. k = "delete" => columns = Columns
  OBVIOUS
<1> QED
  BY <1>1, <1>2, <1>3, AcceptKeeps

LEMMA ChangeKeeps ==
    ASSUME AccountsIInv, NEW r \in Reqs, NEW k \in {"login", "self", "put", "assign"}, NEW u \in Users,
           NEW row \in Row, NEW columns \in SUBSET (Columns \ {"gen"}), Change(r, k, u, row, columns),
           \A c \in Columns \ columns : row[c] = user[u][c],
           columns \cap {"role", "custom"} # {} => k = "assign"
    PROVE  Kept(r)
<1> DEFINE j == Copy(k, u, row)
<1>1. j.copies[u] = row /\ j.kind = k
  <2>1. k \in Kinds
    BY DEF Kinds
  <2> QED
    BY <2>1, CopyIs
<1>2. /\ Accept(r, j, {u}, columns) /\ Found(u)
      /\ UNCHANGED <<user, base, born, defined, code, issued>>
  BY DEF Change, Rest
<1> HIDE DEF j
<1>3. row.gen = user[u].gen /\ (k # "assign" => row.custom = user[u].custom /\ row.role = user[u].role)
  BY DEF Columns
<1>4. Fresh(j, u, columns)
  BY <1>1, <1>2, <1>3 DEF Fresh
<1>5. born' \in [Users -> 0 .. MaxGen] /\ columns \in SUBSET Columns
  BY <1>2 DEF AccountsIInv, AccountsTypeOK
<1> QED
  BY <1>2, <1>4, <1>5, CopyKeeps DEF j

LEMMA AccountKeeps ==
    ASSUME AccountsIInv, NEW r \in Reqs, NEW u \in Users,
           \/ Login(r, u) \/ PatchMe(r, u)
           \/ \E p \in 1 .. MaxPw : SetPassword(r, u, p)
           \/ PutUser(r, u, ~user[u].active)
           \/ \E n \in RoleNames : AssignRole(r, u, n)
           \/ \E c \in Roles \cup {NoRole} : AssignCustom(r, u, c)
    PROVE  Kept(r)
<1>1. user[u] \in Row
  BY Bounds
<1>2. {"pw"} \in SUBSET (Columns \ {"gen"}) /\ {"active"} \in SUBSET (Columns \ {"gen"})
      /\ {"role"} \in SUBSET (Columns \ {"gen"}) /\ {"custom"} \in SUBSET (Columns \ {"gen"})
  BY DEF Columns
<1>3. CASE Login(r, u)
  <2>1. Change(r, "login", u, user[u], {})
    BY <1>3 DEF Login, Change
  <2> QED
    BY <1>1, <2>1, ChangeKeeps
<1>4. CASE PatchMe(r, u)
  BY <1>1, <1>4, ChangeKeeps DEF PatchMe
<1>5. ASSUME NEW p \in 1 .. MaxPw, SetPassword(r, u, p) PROVE Kept(r)
  <2> DEFINE row == [user[u] EXCEPT !.pw = p]
  <2>1. p \in 0 .. MaxPw
    BY AccountsAssumption
  <2>2. row \in Row /\ \A c \in Columns \ {"pw"} : row[c] = user[u][c]
    BY <1>1, <2>1 DEF Row, Columns
  <2> QED
    BY <1>2, <1>5, <2>2, ChangeKeeps DEF SetPassword
<1>6. CASE PutUser(r, u, ~user[u].active)
  <2> DEFINE row == [user[u] EXCEPT !.active = ~user[u].active]
  <2>1. row \in Row /\ \A c \in Columns \ {"active"} : row[c] = user[u][c]
    BY <1>1 DEF Row, Columns
  <2> QED
    BY <1>2, <1>6, <2>1, ChangeKeeps DEF PutUser
<1>7. ASSUME NEW n \in RoleNames, AssignRole(r, u, n) PROVE Kept(r)
  <2> DEFINE row == [user[u] EXCEPT !.role = n]
  <2>1. row \in Row /\ \A c \in Columns \ {"role"} : row[c] = user[u][c]
    BY <1>1 DEF Row, Columns, RoleNames
  <2> QED
    BY <1>2, <1>7, <2>1, ChangeKeeps DEF AssignRole
<1>8. ASSUME NEW n \in Roles \cup {NoRole}, AssignCustom(r, u, n) PROVE Kept(r)
  <2> DEFINE row == [user[u] EXCEPT !.custom = n]
  <2>1. row \in Row /\ \A c \in Columns \ {"custom"} : row[c] = user[u][c]
    BY <1>1 DEF Row, Columns
  <2> QED
    BY <1>2, <1>8, <2>1, ChangeKeeps DEF AssignCustom
<1> QED
  BY <1>3, <1>4, <1>5, <1>6, <1>7, <1>8

LEMMA DeleteKeeps ==
    ASSUME AccountsIInv, NEW r \in Reqs, NEW u \in Users, DeleteUser(r, u) PROVE Kept(r)
<1> DEFINE j == [Copy("delete", u, user[u]) EXCEPT !.at = "remove"]
<1>1. user[u] \in Row
  BY Bounds
<1>2. j.copies[u] = user[u]
  <2>1. Copy("delete", u, user[u]) \in Job /\ Copy("delete", u, user[u]).copies[u] = user[u]
    BY <1>1, CopyIs, CopyType DEF Kinds
  <2> QED
    BY <2>1 DEF Job
<1>3. /\ Accept(r, j, {u}, Columns) /\ Found(u)
      /\ UNCHANGED <<user, base, born, defined, code, issued>>
  BY DEF DeleteUser, Rest
<1> HIDE DEF j
<1>4. Fresh(j, u, Columns)
  BY <1>2, <1>3 DEF Fresh
<1>5. born' \in [Users -> 0 .. MaxGen]
  BY <1>3 DEF AccountsIInv, AccountsTypeOK
<1> QED
  BY <1>1, <1>3, <1>4, <1>5, CopyKeeps DEF j

LEMMA CreateKeeps ==
    ASSUME AccountsIInv, NEW r \in Reqs, NEW u \in Users, NEW custom \in Roles \cup {NoRole},
           CreateUser(r, u, custom)
    PROVE  Kept(r)
<1> DEFINE row == [gen |-> born[u] + 1, active |-> TRUE, role |-> "developer", custom |-> custom, pw |-> 1]
           j == Copy("self", u, row)
<1>1. /\ Accept(r, j, {u}, Columns) /\ ~Found(u) /\ born[u] < MaxGen
      /\ born' = [born EXCEPT ![u] = @ + 1]
      /\ UNCHANGED <<user, base, defined, code, issued>>
  BY DEF CreateUser
<1>2. born[u] + 1 \in 0 .. MaxGen /\ 1 \in 0 .. MaxPw /\ born \in [Users -> 0 .. MaxGen]
  BY <1>1, Bounds, AccountsAssumption DEF AccountsIInv, AccountsTypeOK
<1>3. row \in Row /\ row.gen = born[u] + 1
  BY <1>2 DEF Row
<1> HIDE DEF row
<1>4. j.copies[u] = row /\ j.at = "save"
  BY <1>3, CopyIs DEF Kinds
<1> HIDE DEF j
<1>5. /\ born' \in [Users -> 0 .. MaxGen] /\ born'[u] = born[u] + 1
      /\ \A v \in Users \ {u} : born'[v] = born[v]
  BY <1>1, <1>2
<1>6. Fresh(j, u, Columns)
  BY <1>1, <1>3, <1>4, <1>5 DEF Fresh, Writing
<1> QED
  BY <1>1, <1>3, <1>5, <1>6, CopyKeeps DEF j

\* The requests that begin without writing an account.
LEMMA OtherKeeps ==
    ASSUME AccountsIInv, NEW r \in Reqs, NEW j \in Job, Accept(r, j, {}, {}),
           \/ j.kind = "oauth" /\ j.at = "exchange"
           \/ j.kind = "drop" /\ j.at = "list" /\ j.todo = {}
           \/ j.kind = "role" /\ j.at = "saveRole" /\ j.role \in Roles,
           UNCHANGED <<user, base, born, defined, code, issued>>
    PROVE  Kept(r)
<1>1. ASSUME job'[r] = j PROVE JobOK(r)' /\ Scope(r)' = {}
  BY <1>1 DEF JobOK, Scope
<1>2. born' \in [Users -> 0 .. MaxGen]
  BY DEF AccountsIInv, AccountsTypeOK
<1> QED
  BY <1>1, <1>2, AcceptKeeps

LEMMA SeedKeeps ==
    ASSUME AccountsIInv, NEW r \in Reqs, Seed(r) PROVE Kept(r)
<1> DEFINE j == [NoJob EXCEPT !.kind = "seed", !.at = "demo", !.of = Admin, !.todo = Demo]
<1>1. /\ Accept(r, j, Demo \cup {Admin}, Columns)
      /\ UNCHANGED <<user, base, born, defined, code, issued>>
  BY DEF Seed, Rest
<1>2. j \in Job /\ j.kind = "seed" /\ j.at = "demo" /\ j.of = Admin /\ j.todo = Demo
  BY Rows, AccountsAssumption DEF Job, Kinds, Stages
<1> HIDE DEF j
<1>3. ASSUME job'[r] = j PROVE JobOK(r)' /\ Scope(r)' = Demo \cup {Admin}
  BY <1>2, <1>3 DEF JobOK, Scope
<1>4. born' \in [Users -> 0 .. MaxGen] /\ Demo \cup {Admin} \in SUBSET Users
  BY <1>1, AccountsAssumption DEF AccountsIInv, AccountsTypeOK
<1> QED
  BY <1>1, <1>2, <1>3, <1>4, AcceptKeeps

-----------------------------------------------------------------------------
(* Working on a request *)

\* The copy a request holds of an account is the one it held, or has just been made.
Carries(r, u) == LET j == job'[r] IN
    /\ Holds(r, u) => j.copies[u] = job[r].copies[u]
    /\ ~Holds(r, u) => /\ \A c \in Columns : <<u, c>> \in asked
                       /\ j.copies[u].gen = IF Found(u) THEN user[u].gen ELSE born'[u]
                       /\ ~Found(u) => born'[u] = born[u] + 1
    /\ j.at = "update" /\ j.of = u => j.selected = user[u]

\* A step of a request that writes no row and neither joins nor leaves the writers.
WorkKept(r) ==
    /\ \A q \in Reqs \ {r} : job'[q] = job[q]
    /\ Scope(r)' = Scope(r) /\ job'[r].kind = job[r].kind
    /\ UNCHANGED <<user, base, asked, lone, raced, seeded>>
    /\ \A u \in Users :
        \/ born'[u] = born[u]
        \/ u \in Scope(r) /\ ~Holds(r, u) /\ ~Found(u) /\ born'[u] = born[u] + 1
    /\ \A u \in Scope(r) : Holds(r, u)' => Carries(r, u)

LEMMA WorkKeeps ==
    ASSUME AccountsIInv, NEW r \in Reqs, WorkKept(r), AccountsTypeOK', JobOK(r)', CodeOK',
           \A u \in Users : Sole(r, u) /\ Knows(r, u) /\ u \in Scope(r) => Knows(r, u)',
           job'[r].kind = "seed" /\ job'[r].at # "demo" => AdminRow(job'[r].copies[Admin])
    PROVE  Kept(r)
<1>1. /\ \A q \in Reqs \ {r} : job'[q] = job[q]
      /\ Scope(r)' = Scope(r) /\ job'[r].kind = job[r].kind
      /\ UNCHANGED <<user, base, asked, lone, raced, seeded>>
  BY DEF WorkKept
<1>2. /\ \A q \in Reqs : Scope(q)' = Scope(q)
      /\ \A q \in Reqs \ {r} : \A u : Holds(q, u)' <=> Holds(q, u)
      /\ \A q \in Reqs : \A u : Others(q, u)' = Others(q, u)
  <2>1. \A q \in Reqs : Scope(q)' = Scope(q)
    BY <1>1, OthersStay
  <2> QED
    BY <1>1, <2>1 DEF Holds, Others
<1>3. \A u \in Users : /\ born[u] \in Nat /\ user[u].gen \in Nat /\ user[u].gen <= born[u]
                       /\ born'[u] >= born[u] /\ user[u].gen <= born'[u]
  <2>1. \A u \in Users : born[u] \in Nat /\ user[u].gen \in Nat /\ user[u].gen <= born[u]
    BY Bounds
  <2>2. \A u \in Users : born'[u] = born[u] \/ born'[u] = born[u] + 1
    BY DEF WorkKept
  <2> QED
    BY <2>1, <2>2
<1>4. \A q \in Reqs : JobOK(q)' /\ AsksAll(q)'
  BY <1>1, <1>2 DEF AccountsIInv, JobOK, AsksAll
<1>5. ASSUME NEW u \in Users, NEW c \in Columns PROVE Unasked(u, c)'
  <2> SUFFICES ASSUME <<u, c>> \notin asked
               PROVE  /\ user[u][c] = base[u][c]
                      /\ \A q \in Reqs : Holds(q, u)' =>
                          /\ job'[q].copies[u][c] = base[u][c]
                          /\ job'[q].at = "update" /\ job'[q].of = u =>
                                job'[q].selected[c] = base[u][c]
    BY <1>1 DEF Unasked
  <2>1. Unasked(u, c)
    BY DEF AccountsIInv
  <2>2. ASSUME Holds(r, u)'
        PROVE  /\ job'[r].copies[u][c] = base[u][c]
               /\ job'[r].at = "update" /\ job'[r].of = u => job'[r].selected[c] = base[u][c]
    <3>1. u \in Scope(r)
      BY <1>1, <2>2 DEF Holds
    <3> QED
      BY <2>1, <2>2, <3>1 DEF WorkKept, Carries, Unasked
  <2> QED
    BY <1>1, <1>2, <2>1, <2>2 DEF Unasked
<1>6. ASSUME NEW u \in Users PROVE Latest(u)'
  <2>1. Latest(u)
    BY DEF AccountsIInv
  <2>2. user[u].gen <= born'[u]
    BY <1>3
  <2> SUFFICES ASSUME u \notin raced
               PROVE  /\ Found(u) => user[u].gen = born'[u]
                      /\ \A q \in Reqs : Holds(q, u)' => job'[q].copies[u].gen = born'[u]
                      /\ \A p, q \in Reqs : u \in Scope(p) /\ u \in Scope(q) => p = q
    BY <1>1, <1>2, <2>2 DEF Latest, Found
  <2>3. \A p, q \in Reqs : u \in Scope(p) /\ u \in Scope(q) => p = q
    BY <2>1 DEF Latest
  <2>4. Found(u) => user[u].gen = born'[u]
    BY <2>1 DEF Latest, WorkKept
  <2>5. ASSUME Holds(r, u)' PROVE job'[r].copies[u].gen = born'[u]
    <3>1. u \in Scope(r)
      BY <1>1, <2>5 DEF Holds
    <3> QED
      BY <2>1, <2>4, <2>5, <3>1 DEF WorkKept, Carries, Latest
  <2>6. ASSUME NEW q \in Reqs \ {r}, Holds(q, u)' PROVE job'[q].copies[u].gen = born'[u]
    <3>1. u \in Scope(q) /\ u \notin Scope(r) /\ Holds(q, u)
      BY <1>2, <2>3, <2>6 DEF Holds
    <3> QED
      BY <1>1, <2>1, <2>6, <3>1 DEF WorkKept, Carries, Latest
  <2> QED
    BY <2>3, <2>4, <2>5, <2>6
<1>7. ASSUME NEW q \in Reqs, NEW u \in Users, Sole(q, u)' PROVE Knows(q, u)'
  <2>1. Sole(q, u) /\ Knows(q, u)
    BY <1>1, <1>2, <1>7 DEF Sole, AccountsIInv
  <2>2. CASE q = r
    BY <2>1, <2>2 DEF Sole
  <2>3. CASE q # r
    BY <1>1, <1>2, <2>1, <2>3 DEF Knows, Found
  <2> QED
    BY <2>2, <2>3
<1>8. ASSUME NEW q \in Reqs, NEW u \in Users, Holds(q, u)' PROVE job'[q].copies[u].gen <= born'[u]
  <2>1. CASE q # r
    <3>1. job[q].copies[u].gen <= born[u] /\ job[q].copies[u].gen \in Nat
      BY <1>2, <1>8, <2>1, Bounds, AccountsAssumption DEF AccountsIInv, Job, Row
    <3> QED
      BY <1>1, <1>3, <2>1, <3>1 DEF WorkKept
  <2>2. CASE q = r
    <3>1. u \in Scope(r)
      BY <1>2, <1>8, <2>2 DEF Holds
    <3>2. CASE Holds(r, u)
      <4>1. job[r].copies[u].gen <= born[u] /\ job[r].copies[u].gen \in Nat
        BY <3>2, Bounds, AccountsAssumption DEF AccountsIInv, Job, Row
      <4> QED
        BY <1>3, <1>8, <2>2, <3>1, <3>2, <4>1 DEF WorkKept, Carries
    <3>3. CASE ~Holds(r, u)
      BY <1>3, <1>8, <2>2, <3>1, <3>3 DEF WorkKept, Carries
    <3> QED
      BY <3>2, <3>3
  <2> QED
    BY <2>1, <2>2
<1>9. SeedOK'
  <2>1. \A q \in Reqs : job'[q].kind = "seed" /\ job'[q].at # "demo" => AdminRow(job'[q].copies[Admin])
    BY <1>1 DEF AccountsIInv, SeedOK
  <2>2. seeded' => AdminRow(user'[Admin]) /\ \A q \in Reqs : Admin \notin Scope(q)'
    BY <1>1, <1>2 DEF AccountsIInv, SeedOK
  <2> QED
    BY <2>1, <2>2 DEF SeedOK
<1>10. Tame(r)
  <2>1. \A u \in Users : Turns(r, u)
    BY <1>1 DEF Turns
  <2>2. ASSUME NEW u \in Users PROVE Makes(r, u)
    <3> SUFFICES ASSUME Holds(r, u)', ~Found(u), ~Holds(r, u) PROVE born'[u] = born[u] + 1
      BY <1>1 DEF Makes, Found
    <3>1. u \in Scope(r)
      BY <1>1 DEF Holds
    <3> QED
      BY <3>1 DEF WorkKept, Carries
  <2>3. \A u \in Users : born'[u] \in {born[u], born[u] + 1}
    BY DEF WorkKept
  <2> QED
    BY <1>1, <2>1, <2>2, <2>3 DEF Tame
<1> QED
  BY <1>4, <1>5, <1>6, <1>7, <1>8, <1>9, <1>10 DEF AccountsIInv, Kept

\* The simplest such step leaves the copies and the accounts made.
LEMMA PlainWork ==
    ASSUME NEW r \in Reqs, \A q \in Reqs \ {r} : job'[q] = job[q], Scope(r)' = Scope(r),
           job'[r].kind = job[r].kind, UNCHANGED <<user, born, base, asked, lone, raced, seeded>>,
           Scope(r) # {} => job'[r].copies = job[r].copies /\ job[r].at # "demo",
           job'[r].at = "update" => job'[r].selected = user[job'[r].of]
    PROVE  WorkKept(r)
<1>1. ASSUME NEW u \in Scope(r)
      PROVE  Carries(r, u)
  <2>1. Scope(r) # {} /\ Holds(r, u)
    BY DEF Holds
  <2> QED
    BY <2>1 DEF Carries
<1> QED
  BY <1>1 DEF WorkKept

LEMMA SetJob ==
    ASSUME AccountsTypeOK, NEW r \in Reqs, NEW j \in Job, job' = [job EXCEPT ![r] = j]
    PROVE  /\ job' \in [Reqs -> Job] /\ job'[r] = j
           /\ \A q \in Reqs \ {r} : job'[q] = job[q]
BY DEF AccountsTypeOK

\* What every step keeps of the codes that has nothing to do with them.
LEMMA CodeKept ==
    ASSUME CodeOK, UNCHANGED <<code, issued, started>>,
           \A r \in Reqs : Exchanging(r)' => Exchanging(r)
    PROVE  CodeOK'
BY DEF CodeOK

\* The accounts a request may still write, by its kind.
LEMMA ScopeIs ==
    ASSUME NEW r \in Reqs, JobOK(r), job[r] \in Job
    PROVE  /\ job[r].kind \in {"none", "token", "role"} => Scope(r) = {}
           /\ job[r].kind \in {"login", "self", "put", "assign", "delete"} => Scope(r) = {job[r].of}
           /\ job[r].kind = "oauth" => Scope(r) = IF job[r].at = "exchange" THEN {} ELSE {job[r].of}
           /\ job[r].kind = "drop" => Scope(r) = job[r].todo
           /\ job[r].kind = "seed" => Scope(r) = job[r].todo \cup {Admin}
           /\ job[r].kind \in Kinds /\ (job[r].at = "idle" => job[r].kind = "none")
<1>1. job[r].kind \in Kinds
  BY DEF Job
<1> QED
  BY <1>1 DEF Scope, JobOK, Writing, Kinds

\* A request about to write its account has it in its scope.
LEMMA WriterIs ==
    ASSUME AccountsIInv, NEW r \in Reqs, job[r].at \in Writing
    PROVE  LET j == job[r] u == j.of IN
           /\ u \in Users /\ u \in Scope(r) /\ Holds(r, u)
           /\ j.kind \in {"login", "self", "put", "assign", "oauth", "seed", "drop"}
           /\ j.kind = "drop" => Scope(r) = j.todo
           /\ j.kind = "seed" => Scope(r) = {Admin} /\ u = Admin
           /\ j.kind \notin {"drop", "seed"} => Scope(r) = {u}
<1>1. JobOK(r) /\ job[r] \in Job
  BY Bounds DEF AccountsIInv
<1>2. job[r].of \in Users
  BY <1>1 DEF Job
<1>3. job[r].kind \in {"login", "self", "put", "assign", "oauth", "seed", "drop"}
  BY <1>1, ScopeIs DEF JobOK, Writing, Kinds
<1> QED
  BY <1>1, <1>2, <1>3, ScopeIs DEF JobOK, Writing, Holds

LEMMA SelectKeeps ==
    ASSUME AccountsIInv, NEW r \in Reqs, Select(r) PROVE Kept(r)
<1> DEFINE j == job[r] u == j.of
           new == [j EXCEPT !.at = "update", !.selected = user[u]]
<1>1. /\ j.at = "save" /\ job' = [job EXCEPT ![r] = new]
      /\ UNCHANGED <<user, base, started, Rest, asked, lone, raced, seeded>>
  BY DEF Select, AccountsIInv, AccountsTypeOK
<1>2. j \in Job /\ u \in Users /\ user[u] \in Row
  BY Bounds DEF Job
<1>3. /\ new \in Job /\ new.at = "update" /\ new.selected = user[u]
      /\ new.kind = j.kind /\ new.of = j.of /\ new.todo = j.todo /\ new.copies = j.copies
      /\ new.role = j.role
  BY <1>2 DEF Job, Stages
<1> HIDE DEF new
<1>4. /\ job' \in [Reqs -> Job] /\ job'[r] = new
      /\ \A q \in Reqs \ {r} : job'[q] = job[q]
  BY <1>1, <1>3, SetJob DEF AccountsIInv
<1>5. JobOK(r) /\ JobOK(r)'
  BY <1>1, <1>3, <1>4 DEF AccountsIInv, JobOK, Writing
<1>6. Scope(r)' = Scope(r)
  BY <1>1, <1>3, <1>4 DEF Scope
<1>7. AccountsTypeOK'
  BY <1>1, <1>4 DEF AccountsTypeOK, AccountsIInv, Rest
<1>8. CodeOK'
  BY <1>1, <1>3, <1>4, CodeKept DEF Exchanging, AccountsIInv, Rest
<1>9. WorkKept(r)
  BY <1>1, <1>3, <1>4, <1>6, PlainWork DEF Rest
<1>10. ASSUME NEW v \in Users, Knows(r, v), v \in Scope(r) PROVE Knows(r, v)'
  BY <1>1, <1>3, <1>4, <1>6, <1>10, OthersStay DEF Knows, Writing, Found
<1>11. job'[r].kind = "seed" => AdminRow(job'[r].copies[Admin])
  BY <1>1, <1>3, <1>4 DEF AccountsIInv, SeedOK
<1> QED
  BY <1>4, <1>5, <1>7, <1>8, <1>9, <1>10, <1>11, WorkKeeps

LEMMA NextUserKeeps ==
    ASSUME AccountsIInv, NEW r \in Reqs, NEW u \in Users, NextUser(r, u) PROVE Kept(r)
<1> DEFINE j == job[r]
           new == [j EXCEPT !.at = "save", !.of = u]
<1>1. /\ j.at = "next" /\ u \in j.todo /\ job' = [job EXCEPT ![r] = new]
      /\ UNCHANGED <<user, base, started, Rest, asked, lone, raced, seeded>>
  BY DEF NextUser, AccountsIInv, AccountsTypeOK
<1>2. j \in Job /\ JobOK(r)
  BY Bounds DEF AccountsIInv
<1>3. /\ new \in Job /\ new.at = "save"
      /\ new.kind = j.kind /\ new.of = u /\ new.todo = j.todo /\ new.copies = j.copies
  BY <1>2 DEF Job, Stages
<1> HIDE DEF new
<1>4. /\ job' \in [Reqs -> Job] /\ job'[r] = new
      /\ \A q \in Reqs \ {r} : job'[q] = job[q]
  BY <1>1, <1>3, SetJob DEF AccountsIInv
<1>5. j.kind = "drop"
  BY <1>1, <1>2, ScopeIs DEF JobOK, Writing, Kinds
<1>6. JobOK(r)'
  BY <1>1, <1>3, <1>4, <1>5 DEF JobOK, Writing
<1>7. Scope(r)' = Scope(r)
  BY <1>1, <1>3, <1>4, <1>5 DEF Scope
<1>8. AccountsTypeOK'
  BY <1>1, <1>4 DEF AccountsTypeOK, AccountsIInv, Rest
<1>9. CodeOK'
  BY <1>1, <1>3, <1>4, CodeKept DEF Exchanging, AccountsIInv, Rest
<1>10. WorkKept(r)
  BY <1>1, <1>3, <1>4, <1>7, PlainWork DEF Rest
<1>11. ASSUME NEW v \in Users, Knows(r, v), v \in Scope(r) PROVE Knows(r, v)'
  BY <1>1, <1>3, <1>4, <1>5, <1>7, <1>11, OthersStay DEF Knows, Writing, Found
<1> QED
  BY <1>3, <1>4, <1>5, <1>6, <1>8, <1>9, <1>10, <1>11, WorkKeeps

\* A request to change a role writes no account before it clears the entries.
LEMMA RoleKeeps ==
    ASSUME AccountsIInv, NEW r \in Reqs, SaveRole(r) \/ ListRole(r) PROVE Kept(r)
<1> DEFINE j == job[r]
           us == {u \in Users : Found(u) /\ user[u].custom = j.role}
           new == IF SaveRole(r) THEN [j EXCEPT !.at = "listRole"]
                  ELSE [j EXCEPT !.at = "clearRole", !.copies = user, !.want = {}, !.todo = us]
<1>1. /\ j.at \in {"saveRole", "listRole"} /\ job' = [job EXCEPT ![r] = new]
      /\ UNCHANGED <<user, born, started, code, issued, base, asked, lone, raced, seeded>>
  BY DEF SaveRole, ListRole, AccountsIInv, AccountsTypeOK
<1>2. j \in Job /\ JobOK(r) /\ user \in [Users -> Row]
  BY Bounds DEF AccountsIInv, AccountsTypeOK
<1>3. j.kind = "role" /\ j.role \in Roles
  BY <1>1, <1>2, ScopeIs DEF JobOK, Writing, Kinds
<1>4. new \in Job /\ new.kind = "role" /\ new.role = j.role /\ new.at \in {"listRole", "clearRole"}
  BY <1>2, <1>3 DEF Job, Stages
<1>5. defined' \subseteq Roles
  BY <1>3 DEF SaveRole, ListRole, AccountsIInv, AccountsTypeOK
<1> HIDE DEF new
<1>6. /\ job' \in [Reqs -> Job] /\ job'[r] = new
      /\ \A q \in Reqs \ {r} : job'[q] = job[q]
  BY <1>1, <1>4, SetJob DEF AccountsIInv
<1>7. JobOK(r)'
  BY <1>3, <1>4, <1>6 DEF JobOK
<1>8. Scope(r) = {} /\ Scope(r)' = {}
  BY <1>3, <1>4, <1>6 DEF Scope
<1>9. AccountsTypeOK'
  BY <1>1, <1>5, <1>6 DEF AccountsTypeOK, AccountsIInv
<1>10. CodeOK'
  BY <1>1, <1>4, <1>6, CodeKept DEF Exchanging, AccountsIInv
<1>11. WorkKept(r)
  BY <1>1, <1>3, <1>4, <1>6, <1>8, PlainWork
<1> QED
  BY <1>4, <1>6, <1>7, <1>8, <1>9, <1>10, <1>11, WorkKeeps

\* The administrator's row as seeding wants it.
LEMMA Repairs ==
    ASSUME NEW row \in Row
    PROVE  /\ Repaired(row) \in Row /\ Repaired(row).gen = row.gen /\ Repaired(row).custom = row.custom
           /\ row.gen # 0 => AdminRow(Repaired(row))
<1> DEFINE pw == IF row.pw = 0 THEN 1 ELSE row.pw
<1>1. 1 \in 0 .. MaxPw
  BY AccountsAssumption
<1>2. pw \in 0 .. MaxPw /\ pw # 0
  BY <1>1 DEF Row
<1>3. Repaired(row) = [row EXCEPT !.role = "admin", !.active = TRUE, !.pw = pw]
  BY DEF Repaired
<1> HIDE DEF pw
<1> QED
  BY <1>2, <1>3 DEF Row, AdminRow

LEMMA SeedSaveKeeps ==
    ASSUME AccountsIInv, NEW r \in Reqs, NEW copy \in Row, AdminRow(copy),
           job[r].at = "demo", job[r].todo = {},
           job' = [job EXCEPT ![r].at = "save", ![r].copies[Admin] = copy],
           UNCHANGED <<user, defined, started, code, issued, raced, base, asked, lone, seeded>>,
           \/ /\ Found(Admin) /\ copy.gen = user[Admin].gen /\ copy.custom = user[Admin].custom
              /\ born' = born
           \/ /\ ~Found(Admin) /\ born[Admin] < MaxGen /\ copy.gen = born[Admin] + 1
              /\ born' = [born EXCEPT ![Admin] = @ + 1]
    PROVE  Kept(r)
<1> DEFINE j == job[r]
           new == [j EXCEPT !.at = "save", !.copies[Admin] = copy]
<1>1. job' = [job EXCEPT ![r] = new]
  <2> DEFINE mid == [j EXCEPT !.at = "save"]
  <2>1. [job EXCEPT ![r].at = "save"] = [job EXCEPT ![r] = mid]
    OBVIOUS
  <2>2. job' = [[job EXCEPT ![r] = mid] EXCEPT ![r] = [@ EXCEPT !.copies[Admin] = copy]]
    BY <2>1
  <2> QED
    BY <2>2 DEF AccountsIInv, AccountsTypeOK
<1>2. j \in Job /\ JobOK(r) /\ j.copies \in [Users -> Row] /\ Admin \in Users
  BY Bounds, AccountsAssumption DEF AccountsIInv, Job
<1>3. j.kind = "seed" /\ j.of = Admin
  BY <1>2, ScopeIs DEF JobOK, Writing, Kinds
<1>4. /\ new \in Job /\ new.at = "save" /\ new.kind = "seed" /\ new.of = Admin /\ new.todo = {}
      /\ new.copies[Admin] = copy
  <2>1. [j.copies EXCEPT ![Admin] = copy] \in [Users -> Row]
    BY <1>2
  <2> QED
    BY <1>2, <1>3, <2>1 DEF Job, Stages
<1> HIDE DEF new
<1>5. /\ job' \in [Reqs -> Job] /\ job'[r] = new
      /\ \A q \in Reqs \ {r} : job'[q] = job[q]
  BY <1>1, <1>4, SetJob DEF AccountsIInv
<1>6. JobOK(r)'
  BY <1>4, <1>5 DEF JobOK, Writing
<1>7. Scope(r) = {Admin} /\ Scope(r)' = {Admin} /\ ~Holds(r, Admin)
  BY <1>3, <1>4, <1>5 DEF Scope, Holds
<1>8. /\ \A u \in Users \ {Admin} : born'[u] = born[u]
      /\ born'[Admin] = IF Found(Admin) THEN born[Admin] ELSE born[Admin] + 1
      /\ born' \in [Users -> 0 .. MaxGen]
  <2>1. born \in [Users -> 0 .. MaxGen] /\ born[Admin] \in Nat
    BY <1>2, Bounds DEF AccountsIInv, AccountsTypeOK
  <2>2. born[Admin] < MaxGen => born[Admin] + 1 \in 0 .. MaxGen
    BY <2>1, AccountsAssumption
  <2> QED
    BY <1>2, <2>1, <2>2
<1>9. AccountsTypeOK'
  BY <1>5, <1>8 DEF AccountsTypeOK, AccountsIInv
<1>10. CodeOK'
  BY <1>4, <1>5, CodeKept DEF Exchanging, AccountsIInv
<1>11. \A c \in Columns : <<Admin, c>> \in asked
  BY <1>3, <1>7 DEF AccountsIInv, AsksAll
<1>12. WorkKept(r)
  <2>1. /\ ~Found(Admin) => born'[Admin] = born[Admin] + 1
        /\ job'[r].copies[Admin].gen = IF Found(Admin) THEN user[Admin].gen ELSE born'[Admin]
    BY <1>4, <1>5, <1>8
  <2>2. job'[r].at = "save" /\ job'[r].kind = job[r].kind
    BY <1>3, <1>4, <1>5
  <2>3. Carries(r, Admin)
    BY <1>7, <1>11, <2>1, <2>2 DEF Carries
  <2>4. \A u \in Users :
            \/ born'[u] = born[u]
            \/ u \in Scope(r) /\ ~Holds(r, u) /\ ~Found(u) /\ born'[u] = born[u] + 1
    BY <1>7, <1>8
  <2> QED
    BY <1>5, <1>7, <2>2, <2>3, <2>4 DEF WorkKept
<1>13. ASSUME NEW v \in Users, Knows(r, v), v \in Scope(r) PROVE Knows(r, v)'
  <2>1. Others(r, Admin) = {} /\ Others(r, Admin)' = {} /\ v = Admin
    BY <1>5, <1>7, <1>13, OthersStay DEF Knows
  <2>2. copy.gen # 0 /\ user[Admin].gen \in {0, copy.gen} /\ copy.role = "admin"
    BY DEF AdminRow, Found
  <2>3. Found(Admin) => copy.custom = user[Admin].custom
    OBVIOUS
  <2> QED
    BY <1>4, <1>5, <2>1, <2>2, <2>3 DEF Knows, Writing, Found
<1> QED
  BY <1>3, <1>4, <1>5, <1>6, <1>9, <1>10, <1>12, <1>13, WorkKeeps

LEMMA UpdateKeeps ==
    ASSUME AccountsIInv, NEW r \in Reqs, Update(r) PROVE Kept(r)
<1> DEFINE j == job[r]
           u == j.of
           copy == j.copies[u]
           known == j.selected.gen = copy.gen
           row == IF ~known THEN copy
                  ELSE IF user[u].gen = copy.gen THEN Saved(user[u], j.selected, copy) ELSE user[u]
           new == [j EXCEPT !.at = IF j.kind = "drop" THEN "clear" ELSE "answer", !.selected = NoUser]
<1>1. /\ j.at = "update" /\ (~known => ~Found(u))
      /\ user' = [user EXCEPT ![u] = row] /\ job' = [job EXCEPT ![r] = new]
      /\ UNCHANGED <<base, started, Rest, asked, lone, raced, seeded>>
  BY DEF Update, AccountsIInv, AccountsTypeOK
<1>2. /\ j \in Job /\ JobOK(r) /\ u \in Users /\ u \in Scope(r) /\ Holds(r, u)
      /\ j.kind \in {"login", "self", "put", "assign", "oauth", "seed", "drop"}
      /\ j.kind = "seed" => Scope(r) = {Admin} /\ u = Admin
      /\ j.kind \notin {"drop", "seed"} => Scope(r) = {u}
  BY <1>1, Bounds, WriterIs DEF AccountsIInv, Writing
<1>3. user[u] \in Row /\ copy \in Row /\ j.selected \in Row /\ NoUser \in Row
  BY <1>2, Bounds, Rows DEF Job
<1>4. row \in Row /\ \A c \in Columns : row[c] \in {copy[c], user[u][c]}
  BY <1>3, SavedUser
<1>5. ASSUME Sole(r, u) PROVE row = copy /\ Others(r, u) = {} /\ copy.gen # 0
  <2>1. Knows(r, u)
    BY <1>2, <1>5 DEF AccountsIInv
  <2>2. j.selected = user[u] /\ Others(r, u) = {} /\ copy.gen # 0
    BY <1>1, <2>1 DEF Knows
  <2> QED
    BY <1>3, <2>2, SavedUser
<1>6. row.gen \in {copy.gen, user[u].gen}
  BY <1>4 DEF Columns
<1>7. /\ new \in Job /\ new.at = IF j.kind = "drop" THEN "clear" ELSE "answer"
      /\ new.kind = j.kind /\ new.of = u /\ new.todo = j.todo /\ new.copies = j.copies
  BY <1>2, <1>3 DEF Job, Stages
<1> HIDE DEF row, new
<1>8. /\ job' \in [Reqs -> Job] /\ job'[r] = new
      /\ \A q \in Reqs \ {r} : job'[q] = job[q]
  BY <1>1, <1>7, SetJob DEF AccountsIInv
<1>9. /\ user' \in [Users -> Row] /\ user'[u] = row
      /\ \A v \in Users \ {u} : user'[v] = user[v]
  BY <1>1, <1>2, <1>4 DEF AccountsIInv, AccountsTypeOK
<1>10. UNCHANGED <<base, born, asked, lone, raced, seeded, started, code, issued, defined>>
  BY <1>1 DEF Rest
<1>11. AccountsTypeOK'
  BY <1>8, <1>9, <1>10 DEF AccountsTypeOK, AccountsIInv
<1>12. Scope(r)' = Scope(r)
  BY <1>1, <1>2, <1>7, <1>8 DEF Scope
<1>13. \A q \in Reqs : /\ Scope(q)' = Scope(q) /\ \A v : Holds(q, v)' <=> Holds(q, v)
                       /\ \A v : Others(q, v)' = Others(q, v)
  <2>1. \A q \in Reqs : Scope(q)' = Scope(q)
    BY <1>8, <1>12, OthersStay
  <2>2. \A q \in Reqs : job[q].at = "demo" <=> job'[q].at = "demo"
    BY <1>1, <1>7, <1>8
  <2> QED
    BY <2>1, <2>2 DEF Holds, Others
<1>14. \A q \in Reqs : job'[q].copies = job[q].copies /\ job'[q].kind = job[q].kind
  BY <1>7, <1>8
<1>15. \A q \in Reqs : JobOK(q)' /\ AsksAll(q)'
  <2>1. JobOK(r)'
    BY <1>1, <1>2, <1>7, <1>8 DEF JobOK, Writing
  <2>2. \A q \in Reqs \ {r} : JobOK(q)'
    BY <1>8 DEF AccountsIInv, JobOK
  <2> QED
    BY <1>10, <1>13, <1>14, <2>1, <2>2 DEF AccountsIInv, AsksAll
<1>16. ASSUME NEW v \in Users, NEW c \in Columns PROVE Unasked(v, c)'
  <2>1. Unasked(v, c)
    BY DEF AccountsIInv
  <2>2. <<v, c>> \notin asked => user'[v][c] = base[v][c]
    BY <1>2, <1>4, <1>9, <2>1 DEF Unasked
  <2>3. \A q \in Reqs : job'[q].at = "update" => job'[q] = job[q]
    BY <1>7, <1>8
  <2> QED
    BY <1>10, <1>13, <1>14, <2>1, <2>2, <2>3 DEF Unasked
<1>17. ASSUME NEW v \in Users PROVE Latest(v)'
  <2>1. Latest(v) /\ Latest(u)
    BY <1>2 DEF AccountsIInv
  <2>2. user'[v].gen <= born[v]
    BY <1>2, <1>6, <1>9, <2>1 DEF Latest, AccountsIInv
  <2>3. v \notin raced => (user'[v].gen # 0 => user'[v].gen = born[v])
    BY <1>2, <1>6, <1>9, <2>1 DEF Latest, Found
  <2> QED
    BY <1>10, <1>13, <1>14, <2>1, <2>2, <2>3 DEF Latest, Found
<1>18. ASSUME NEW q \in Reqs, NEW v \in Users, Sole(q, v)' PROVE Knows(q, v)'
  <2>1. Sole(q, v) /\ Knows(q, v)
    BY <1>10, <1>13, <1>18 DEF Sole, AccountsIInv
  <2>2. Others(q, v)' = {}
    BY <1>13, <2>1 DEF Knows
  <2>3. CASE q # r
    <3>1. v # u
      BY <1>2, <2>1, <2>3 DEF Knows, Others, Sole
    <3> QED
      BY <1>8, <1>9, <2>1, <2>2, <2>3, <3>1 DEF Knows, Found
  <2>4. CASE q = r /\ v = u
    BY <1>5, <1>7, <1>8, <1>9, <2>1, <2>2, <2>4 DEF Knows, Writing
  <2>5. CASE q = r /\ v # u
    <3>1. new.at = "clear"
      BY <1>2, <1>7, <2>1, <2>5 DEF Sole
    <3> QED
      BY <1>1, <1>7, <1>8, <1>9, <2>1, <2>2, <2>5, <3>1 DEF Knows, Writing
  <2> QED
    BY <2>3, <2>4, <2>5
<1>19. \A q \in Reqs, v \in Users : Holds(q, v)' => job'[q].copies[v].gen <= born'[v]
  BY <1>10, <1>13, <1>14 DEF AccountsIInv
<1>20. SeedOK'
  <2>1. \A q \in Reqs : job'[q].kind = "seed" /\ job'[q].at # "demo" => AdminRow(job'[q].copies[Admin])
    BY <1>1, <1>8, <1>14 DEF AccountsIInv, SeedOK
  <2>2. seeded => u # Admin
    BY <1>2 DEF AccountsIInv, SeedOK
  <2>3. Admin \in Users
    BY AccountsAssumption
  <2> QED
    BY <1>9, <1>10, <1>13, <2>1, <2>2, <2>3 DEF AccountsIInv, SeedOK
<1>21. CodeOK'
  BY <1>10, <1>14, CodeKept DEF Exchanging, AccountsIInv
<1>22. Tame(r)
  <2>1. ASSUME NEW v \in Users \ raced PROVE Makes(r, v)
    <3>1. Holds(r, v)' => Holds(r, v)
      BY <1>13
    <3>2. CASE v = u
      BY <1>2, <1>5, <1>9, <2>1, <3>2 DEF Sole, Makes
    <3>3. CASE v # u
      BY <1>9, <3>1, <3>3 DEF Makes, Found
    <3> QED
      BY <3>2, <3>3
  <2>2. ASSUME NEW v \in Users \ raced PROVE Turns(r, v)
    <3>1. CASE v # u
      BY <1>9, <3>1 DEF Turns
    <3>2. CASE v = u
      <4>1. Sole(r, u) /\ row = copy /\ copy.gen # 0
        BY <1>2, <1>5, <2>2, <3>2 DEF Sole
      <4>2. CASE j.kind \in {"put", "assign", "drop"}
        <5>1. Excuses(r, v)'
          BY <1>7, <1>8, <3>2, <4>2 DEF Excuses
        <5> QED
          BY <1>9, <3>2, <4>1, <5>1 DEF Turns
      <4>3. CASE j.kind \notin {"put", "assign", "drop"} /\ Found(u)
        <5>1. Knows(r, u)
          BY <1>2, <4>1 DEF AccountsIInv
        <5>2. user[u].gen = copy.gen /\ copy.custom = user[u].custom /\ copy.role \in {user[u].role, "admin"}
          BY <1>1, <4>3, <5>1 DEF Knows, Writing, Found
        <5> QED
          BY <1>9, <3>2, <4>1, <5>2 DEF Turns
      <4>4. CASE ~Found(u)
        <5>1. copy.gen = born[u]
          BY <1>2, <2>2, <3>2 DEF AccountsIInv, Latest
        <5> QED
          BY <1>2, <1>9, <3>2, <4>1, <4>4, <5>1 DEF Turns
      <4> QED
        BY <4>2, <4>3, <4>4
    <3> QED
      BY <3>1, <3>2
  <2> QED
    BY <1>8, <1>10, <2>1, <2>2 DEF Tame
<1> QED
  BY <1>11, <1>15, <1>16, <1>17, <1>18, <1>19, <1>20, <1>21, <1>22 DEF AccountsIInv, Kept

-----------------------------------------------------------------------------
(* Ending a request *)

LEMMA LeaveKeeps ==
    ASSUME AccountsIInv, NEW r \in Reqs, NEW wanted, NEW done \in BOOLEAN, Leave(r, wanted, done),
           UNCHANGED <<born, code, started>>, CodeOK', defined' \subseteq Roles,
           raced \subseteq raced', raced' \subseteq Users, issued' \in 0 .. 2 * MaxRequests,
           user' \in [Users -> Row],
           \A u \in Users : done /\ r \in lone /\ u \in Scope(r) /\ Others(r, u) = {} => wanted[u] = user'[u],
           \A u \in Users :
              \/ user'[u] = user[u]
              \/ u \in Scope(r) /\ user'[u] = NoUser /\ job[r].kind = "delete",
           job[r].kind = "seed" /\ done /\ r \in lone => AdminRow(user'[Admin])
    PROVE  Kept(r)
<1> DEFINE lost == {u \in Scope(r) : Others(r, u) = {}}
<1>1. /\ job' = [job EXCEPT ![r] = NoJob]
      /\ base' = [u \in Users |->
                    IF u \notin lost THEN base[u]
                    ELSE IF done /\ r \in lone THEN wanted[u] ELSE user'[u]]
      /\ asked' = {a \in asked : a[1] \notin lost}
      /\ lone' = lone \ {r}
      /\ seeded' = IF job[r].kind = "seed" THEN done /\ r \in lone ELSE seeded
  BY DEF Leave
<1>2. /\ job' \in [Reqs -> Job] /\ job'[r] = NoJob
      /\ \A q \in Reqs \ {r} : job'[q] = job[q]
  BY <1>1, Rows, SetJob DEF AccountsIInv
<1>3. JobOK(r) /\ job[r] \in Job
  BY Bounds DEF AccountsIInv
<1>4. \A u \in Users : base'[u] = IF u \in lost THEN user'[u] ELSE base[u]
  BY <1>1
<1>5. base' \in [Users -> Row]
  BY <1>1, <1>4 DEF AccountsIInv, AccountsTypeOK
<1>6. AccountsTypeOK'
  <2>1. asked' \subseteq Users \X Columns /\ lone' \subseteq Reqs /\ seeded' \in BOOLEAN
    BY <1>1 DEF AccountsIInv, AccountsTypeOK
  <2> QED
    BY <1>2, <1>5, <2>1 DEF AccountsIInv, AccountsTypeOK
<1>7. JobOK(r)' /\ Scope(r)' = {}
  BY <1>2, Rows DEF JobOK, Scope
<1>8. ASSUME NEW u \in Users
      PROVE  \/ user'[u] = user[u]
             \/ u \in Scope(r) /\ user'[u] = NoUser /\ \A c \in Columns : <<u, c>> \in asked
  BY DEF AccountsIInv, AsksAll
<1>9. Settles(r)
  BY <1>1, <1>2, <1>4, <1>7, <1>8 DEF Settles
<1>10. ASSUME seeded' PROVE AdminRow(user'[Admin]) /\ \A q \in Reqs : Admin \notin Scope(q)'
  <2>1. Admin \in Users
    BY AccountsAssumption
  <2>2. \A q \in Reqs \ {r} : Scope(q)' = Scope(q)
    BY <1>2, OthersStay
  <2>3. CASE job[r].kind = "seed"
    <3>1. Admin \in Scope(r) /\ r \in lone /\ done
      BY <1>1, <1>3, <1>10, <2>3, ScopeIs
    <3>2. Others(r, Admin) = {}
      BY <2>1, <3>1 DEF AccountsIInv, Sole, Knows
    <3> QED
      BY <1>7, <2>2, <2>3, <3>1, <3>2 DEF Others
  <2>4. CASE job[r].kind # "seed"
    <3>1. AdminRow(user[Admin]) /\ \A q \in Reqs : Admin \notin Scope(q)
      BY <1>1, <1>10, <2>4 DEF AccountsIInv, SeedOK
    <3> QED
      BY <1>7, <1>8, <2>1, <2>2, <3>1
  <2> QED
    BY <2>3, <2>4
<1> QED
  BY <1>2, <1>6, <1>7, <1>9, <1>10, Rows, SettleKeeps

\* A request that leaves the rows as they are.
LEMMA EndKeeps ==
    ASSUME AccountsIInv, NEW r \in Reqs, NEW wanted, NEW done \in BOOLEAN, Leave(r, wanted, done),
           UNCHANGED <<user, born, code, started, issued>>, defined' \subseteq Roles,
           raced \subseteq raced', raced' \subseteq Users,
           \A u \in Users : done /\ r \in lone /\ u \in Scope(r) /\ Others(r, u) = {} => wanted[u] = user[u],
           job[r].kind = "seed" /\ done /\ r \in lone => AdminRow(user[Admin])
    PROVE  Kept(r)
<1>1. job'[r] = NoJob /\ \A q \in Reqs \ {r} : job'[q] = job[q]
  BY Rows, SetJob DEF AccountsIInv, Leave
<1>2. CodeOK'
  BY <1>1, Rows, CodeKept DEF AccountsIInv, Exchanging
<1>3. user' \in [Users -> Row] /\ issued' \in 0 .. 2 * MaxRequests
  BY DEF AccountsIInv, AccountsTypeOK
<1> QED
  BY <1>2, <1>3, LeaveKeeps

LEMMA AnswerKeeps ==
    ASSUME AccountsIInv, NEW r \in Reqs, Answer(r) PROVE Kept(r)
<1>1. /\ job[r].at = "answer" /\ Leave(r, job[r].copies, TRUE)
      /\ UNCHANGED <<user, born, code, started, issued, defined, raced>>
  BY DEF Answer, Rest
<1>2. ASSUME NEW u \in Users, r \in lone, u \in Scope(r) PROVE job[r].copies[u] = user[u]
  BY <1>1, <1>2 DEF AccountsIInv, Sole, Knows
<1>3. ASSUME job[r].kind = "seed", r \in lone PROVE AdminRow(user[Admin])
  <2>1. Admin \in Users /\ Admin \in Scope(r)
    BY <1>3, AccountsAssumption, ScopeIs, Bounds DEF AccountsIInv
  <2>2. AdminRow(job[r].copies[Admin])
    BY <1>1, <1>3 DEF AccountsIInv, SeedOK
  <2> QED
    BY <1>2, <1>3, <2>1, <2>2
<1>4. defined' \subseteq Roles /\ raced \subseteq raced' /\ raced' \subseteq Users
  BY <1>1 DEF AccountsIInv, AccountsTypeOK
<1> QED
  BY <1>1, <1>2, <1>3, <1>4, EndKeeps

LEMMA RemoveKeeps ==
    ASSUME AccountsIInv, NEW r \in Reqs, Remove(r) PROVE Kept(r)
<1> DEFINE u == job[r].of
           wanted == [job[r].copies EXCEPT ![u] = NoUser]
<1>1. /\ job[r].at = "remove" /\ Leave(r, wanted, TRUE)
      /\ user' = [user EXCEPT ![u] = IF @.gen = job[r].copies[u].gen THEN NoUser ELSE @]
      /\ UNCHANGED <<born, code, started, issued, defined, raced>>
  BY DEF Remove, Rest
<1>2. JobOK(r) /\ job[r] \in Job /\ u \in Users /\ job[r].copies \in [Users -> Row]
  BY Bounds DEF AccountsIInv, Job
<1>3. job[r].kind = "delete"
  BY <1>1, <1>2, ScopeIs DEF JobOK, Writing, Kinds
<1>4. Scope(r) = {u}
  BY <1>2, <1>3, ScopeIs
<1>5. /\ user' \in [Users -> Row]
      /\ \A v \in Users : user'[v] = user[v] \/ (v = u /\ user'[v] = NoUser)
  BY <1>1, <1>2, Rows DEF AccountsIInv, AccountsTypeOK
<1>6. ASSUME r \in lone PROVE wanted[u] = user'[u]
  <2>1. user[u].gen = job[r].copies[u].gen
    BY <1>1, <1>2, <1>4, <1>6 DEF AccountsIInv, Sole, Knows
  <2> QED
    BY <1>1, <1>2, <2>1 DEF AccountsIInv, AccountsTypeOK
<1>7. CodeOK'
  <2>1. job'[r] = NoJob /\ \A q \in Reqs \ {r} : job'[q] = job[q]
    BY <1>1, Rows, SetJob DEF AccountsIInv, Leave
  <2> QED
    BY <1>1, <2>1, Rows, CodeKept DEF AccountsIInv, Exchanging
<1>8. /\ defined' \subseteq Roles /\ raced \subseteq raced' /\ raced' \subseteq Users
      /\ issued' \in 0 .. 2 * MaxRequests
  BY <1>1 DEF AccountsIInv, AccountsTypeOK
<1> HIDE DEF wanted
<1> QED
  BY <1>1, <1>3, <1>4, <1>5, <1>6, <1>7, <1>8, LeaveKeeps

LEMMA SignKeeps ==
    ASSUME AccountsIInv, NEW r \in Reqs, SignTokens(r) PROVE Kept(r)
<1>1. /\ job[r].at = "token" /\ Leave(r, user, TRUE)
      /\ issued' \in {issued, issued + 1}
      /\ UNCHANGED <<user, born, code, started, defined, raced>>
  BY DEF SignTokens
<1>2. JobOK(r) /\ job[r] \in Job
  BY Bounds DEF AccountsIInv
<1>3. job[r].kind = "token"
  BY <1>1, <1>2, ScopeIs DEF JobOK, Writing, Kinds
<1>4. Exchanging(r) /\ issued = 0 /\ started > 0 /\ code = NoCode
  BY <1>3 DEF Exchanging, AccountsIInv, CodeOK
<1>5. job'[r] = NoJob /\ \A q \in Reqs \ {r} : job'[q] = job[q]
  BY <1>1, Rows, SetJob DEF AccountsIInv, Leave
<1>6. \A q \in Reqs : ~Exchanging(q)'
  BY <1>4, <1>5, Rows DEF Exchanging, AccountsIInv, CodeOK
<1>7. CodeOK' /\ issued' \in {0, 1}
  BY <1>1, <1>4, <1>6 DEF CodeOK
<1>8. issued' \in 0 .. 2 * MaxRequests
  <2>1. started \in 0 .. 2 * MaxRequests
    BY DEF AccountsIInv, AccountsTypeOK
  <2>2. 0 \in 0 .. 2 * MaxRequests /\ 1 \in 0 .. 2 * MaxRequests
    BY <1>4, <2>1, AccountsAssumption
  <2> QED
    BY <1>7, <2>2
<1>9. /\ defined' \subseteq Roles /\ raced \subseteq raced' /\ raced' \subseteq Users
      /\ user' \in [Users -> Row]
  BY <1>1 DEF AccountsIInv, AccountsTypeOK
<1> QED
  BY <1>1, <1>3, <1>7, <1>8, <1>9, LeaveKeeps

LEMMA RemoveRoleKeeps ==
    ASSUME AccountsIInv, NEW r \in Reqs, RemoveRole(r) PROVE Kept(r)
<1>1. /\ job[r].at = "next" /\ Leave(r, user, TRUE) /\ defined' \subseteq defined
      /\ UNCHANGED <<user, born, code, started, issued, raced>>
  BY DEF RemoveRole
<1>2. JobOK(r) /\ job[r] \in Job
  BY Bounds DEF AccountsIInv
<1>3. job[r].kind # "seed"
  BY <1>1, <1>2 DEF JobOK, Writing
<1>4. defined' \subseteq Roles /\ raced \subseteq raced' /\ raced' \subseteq Users
  BY <1>1 DEF AccountsIInv, AccountsTypeOK
<1> QED
  BY <1>1, <1>3, <1>4, EndKeeps

LEMMA AbandonKeeps ==
    ASSUME AccountsIInv, NEW r \in Reqs, Abandon(r) PROVE Kept(r)
<1>1. /\ Leave(r, user, FALSE) /\ raced \subseteq raced' /\ raced' \subseteq raced \cup {job[r].of}
      /\ UNCHANGED <<user, born, code, started, issued, defined>>
  BY DEF Abandon, Rest
<1>2. job[r].of \in Users
  BY Bounds DEF Job
<1>3. defined' \subseteq Roles /\ raced \subseteq raced' /\ raced' \subseteq Users
  BY <1>1, <1>2 DEF AccountsIInv, AccountsTypeOK
<1> QED
  BY <1>1, <1>3, EndKeeps

LEMMA ClearRoleKeeps ==
    ASSUME AccountsIInv, NEW r \in Reqs, ClearRole(r) PROVE Kept(r)
<1>1. /\ job[r].at = "clearRole" /\ Leave(r, user, TRUE)
      /\ UNCHANGED <<user, born, code, started, issued, raced, defined>>
  BY DEF ClearRole, Rest
<1>2. JobOK(r) /\ job[r] \in Job
  BY Bounds DEF AccountsIInv
<1>3. job[r].kind # "seed"
  BY <1>1, <1>2 DEF JobOK, Writing
<1>4. defined' \subseteq Roles /\ raced \subseteq raced' /\ raced' \subseteq Users
  BY <1>1 DEF AccountsIInv, AccountsTypeOK
<1> QED
  BY <1>1, <1>3, <1>4, EndKeeps

LEMMA SeedAdminKeeps ==
    ASSUME AccountsIInv, NEW r \in Reqs, SeedAdmin(r) PROVE Kept(r)
<1> DEFINE row == user[Admin]
           new == [gen |-> born[Admin] + 1, active |-> TRUE, role |-> "admin", custom |-> NoRole, pw |-> 1]
           Save(copy) == /\ job' = [job EXCEPT ![r].at = "save", ![r].copies[Admin] = copy]
                         /\ UNCHANGED <<base, asked, lone, seeded>>
<1>1. /\ job[r].at = "demo" /\ job[r].todo = {}
      /\ UNCHANGED <<user, defined, started, code, issued, raced>>
      /\ \/ Found(Admin) /\ Save(Repaired(row)) /\ UNCHANGED born
         \/ Found(Admin) /\ Repaired(row) = row /\ Leave(r, user, TRUE) /\ UNCHANGED born
         \/ ~Found(Admin) /\ born[Admin] < MaxGen /\ born' = [born EXCEPT ![Admin] = @ + 1] /\ Save(new)
  BY DEF SeedAdmin
<1>2. Admin \in Users /\ row \in Row /\ born[Admin] \in Nat
  BY Bounds, AccountsAssumption
<1>3. CASE Found(Admin) /\ Save(Repaired(row)) /\ UNCHANGED born
  <2>1. /\ Repaired(row) \in Row /\ AdminRow(Repaired(row))
        /\ Repaired(row).gen = row.gen /\ Repaired(row).custom = row.custom
    BY <1>2, <1>3, Repairs DEF Found
  <2> QED
    BY <1>1, <1>3, <2>1, SeedSaveKeeps
<1>4. CASE Found(Admin) /\ Repaired(row) = row /\ Leave(r, user, TRUE) /\ UNCHANGED born
  <2>1. AdminRow(user[Admin])
    BY <1>2, <1>4, Repairs DEF Found
  <2>2. defined' \subseteq Roles /\ raced \subseteq raced' /\ raced' \subseteq Users
    BY <1>1 DEF AccountsIInv, AccountsTypeOK
  <2> QED
    BY <1>1, <1>4, <2>1, <2>2, EndKeeps
<1>5. CASE ~Found(Admin) /\ born[Admin] < MaxGen /\ born' = [born EXCEPT ![Admin] = @ + 1] /\ Save(new)
  <2>1. born[Admin] + 1 \in 0 .. MaxGen /\ born[Admin] + 1 # 0 /\ 1 \in 0 .. MaxPw
    BY <1>2, <1>5, AccountsAssumption
  <2>2. new \in Row /\ AdminRow(new) /\ new.gen = born[Admin] + 1
    BY <2>1 DEF Row, AdminRow
  <2> HIDE DEF new
  <2> QED
    BY <1>1, <1>5, <2>2, SeedSaveKeeps
<1> QED
  BY <1>1, <1>3, <1>4, <1>5

LEMMA RemoveDemoKeeps ==
    ASSUME AccountsIInv, NEW r \in Reqs, NEW d \in Demo, RemoveDemo(r, d) PROVE Kept(r)
<1> DEFINE j == job[r]
           new == [j EXCEPT !.todo = @ \ {d}]
<1>1. /\ j.at = "demo" /\ d \in j.todo
      /\ user' = [user EXCEPT ![d] = NoUser] \/ user' = user
      /\ job' = [job EXCEPT ![r] = new]
      /\ asked' = IF Others(r, d) = {} THEN {a \in asked : a[1] # d} ELSE asked
      /\ base' = IF Others(r, d) = {} THEN [base EXCEPT ![d] = user'[d]] ELSE base
      /\ UNCHANGED <<born, defined, started, code, issued, lone, raced, seeded>>
  BY DEF RemoveDemo, AccountsIInv, AccountsTypeOK
<1>2. j \in Job /\ JobOK(r) /\ d \in Users /\ d # Admin
  BY Bounds, AccountsAssumption DEF AccountsIInv
<1>3. j.kind = "seed" /\ j.of = Admin
  BY <1>1, <1>2, ScopeIs DEF JobOK, Writing, Kinds
<1>4. /\ new \in Job /\ new.at = "demo" /\ new.kind = "seed" /\ new.of = Admin
      /\ new.todo = j.todo \ {d} /\ new.copies = j.copies
  BY <1>1, <1>2, <1>3 DEF Job
<1> HIDE DEF new
<1>5. /\ job' \in [Reqs -> Job] /\ job'[r] = new
      /\ \A q \in Reqs \ {r} : job'[q] = job[q]
  BY <1>1, <1>4, SetJob DEF AccountsIInv
<1>6. JobOK(r)'
  BY <1>4, <1>5 DEF JobOK
<1>7. Scope(r) = j.todo \cup {Admin} /\ Scope(r)' = (j.todo \ {d}) \cup {Admin}
  BY <1>3, <1>4, <1>5, <1>1 DEF Scope
<1>8. Scope(r) \ Scope(r)' = {d}
  BY <1>1, <1>2, <1>7
<1>9. /\ user' \in [Users -> Row]
      /\ \A u \in Users : user'[u] = user[u] \/ (u = d /\ user'[u] = NoUser)
  BY <1>1, <1>2, Rows DEF AccountsIInv, AccountsTypeOK
<1>10. /\ base' \in [Users -> Row]
       /\ \A u \in Users : base'[u] = IF u = d /\ Others(r, d) = {} THEN user'[u] ELSE base[u]
  BY <1>1, <1>2, <1>9 DEF AccountsIInv, AccountsTypeOK
<1>11. AccountsTypeOK'
  BY <1>1, <1>5, <1>9, <1>10 DEF AccountsIInv, AccountsTypeOK
<1>12. CodeOK'
  BY <1>1, <1>4, <1>5, CodeKept DEF Exchanging, AccountsIInv
<1>13. \A c \in Columns : <<d, c>> \in asked
  BY <1>1, <1>3, <1>7 DEF AccountsIInv, AsksAll
<1> DEFINE lost == {u \in Scope(r) \ Scope(r)' : Others(r, u) = {}}
<1>14. /\ \A u \in Users : base'[u] = IF u \in lost THEN user'[u] ELSE base[u]
       /\ asked' = {a \in asked : a[1] \notin lost}
  BY <1>1, <1>8, <1>10
<1>15. Settles(r)
  BY <1>1, <1>3, <1>4, <1>5, <1>7, <1>8, <1>9, <1>13, <1>14 DEF Settles
<1>16. ~seeded'
  BY <1>1, <1>7 DEF AccountsIInv, SeedOK
<1> QED
  BY <1>4, <1>5, <1>6, <1>11, <1>12, <1>15, <1>16, SettleKeeps

LEMMA UserClearedKeeps ==
    ASSUME AccountsIInv, NEW r \in Reqs, UserCleared(r) PROVE Kept(r)
<1> DEFINE j == job[r] u == j.of
           new == [j EXCEPT !.at = "next", !.todo = @ \ {u}]
<1>1. /\ j.at = "clear" /\ job' = [job EXCEPT ![r] = new]
      /\ asked' = IF Others(r, u) = {} THEN {a \in asked : a[1] # u} ELSE asked
      /\ base' = IF Others(r, u) = {}
                 THEN [base EXCEPT ![u] = IF r \in lone THEN j.copies[u] ELSE user[u]] ELSE base
      /\ UNCHANGED <<user, born, defined, started, code, issued, lone, raced, seeded>>
  BY DEF UserCleared, Rest, AccountsIInv, AccountsTypeOK
<1>2. j \in Job /\ JobOK(r) /\ u \in Users
  BY Bounds DEF AccountsIInv, Job
<1>3. j.kind = "drop" /\ u \in j.todo
  BY <1>1, <1>2, ScopeIs DEF JobOK, Writing, Kinds
<1>4. /\ new \in Job /\ new.at = "next" /\ new.kind = "drop"
      /\ new.todo = j.todo \ {u} /\ new.copies = j.copies
  BY <1>2, <1>3 DEF Job, Stages
<1> HIDE DEF new
<1>5. /\ job' \in [Reqs -> Job] /\ job'[r] = new
      /\ \A q \in Reqs \ {r} : job'[q] = job[q]
  BY <1>1, <1>4, SetJob DEF AccountsIInv
<1>6. JobOK(r)'
  BY <1>4, <1>5 DEF JobOK
<1>7. Scope(r) = j.todo /\ Scope(r)' = j.todo \ {u}
  BY <1>1, <1>3, <1>4, <1>5 DEF Scope
<1>8. Scope(r) \ Scope(r)' = {u}
  BY <1>3, <1>7
<1>9. ASSUME r \in lone PROVE j.copies[u] = user[u]
  BY <1>1, <1>2, <1>3, <1>7, <1>9 DEF AccountsIInv, Sole, Knows
<1>10. /\ base' \in [Users -> Row]
       /\ \A v \in Users : base'[v] = IF v = u /\ Others(r, u) = {} THEN user[v] ELSE base[v]
  BY <1>1, <1>2, <1>9 DEF AccountsIInv, AccountsTypeOK
<1>11. AccountsTypeOK'
  BY <1>1, <1>5, <1>10 DEF AccountsIInv, AccountsTypeOK
<1>12. CodeOK'
  BY <1>1, <1>4, <1>5, CodeKept DEF Exchanging, AccountsIInv
<1> DEFINE lost == {v \in Scope(r) \ Scope(r)' : Others(r, v) = {}}
<1>13. /\ \A v \in Users : base'[v] = IF v \in lost THEN user'[v] ELSE base[v]
       /\ asked' = {a \in asked : a[1] \notin lost}
  BY <1>1, <1>8, <1>10
<1>14. Settles(r)
  BY <1>1, <1>3, <1>4, <1>5, <1>7, <1>8, <1>13 DEF Settles
<1>15. seeded' => AdminRow(user'[Admin]) /\ \A q \in Reqs : Admin \notin Scope(q)'
  <2>1. \A q \in Reqs : Scope(q)' \subseteq Scope(q)
    BY <1>5, <1>7, OthersStay
  <2> QED
    BY <1>1, <2>1 DEF AccountsIInv, SeedOK
<1> QED
  BY <1>4, <1>5, <1>6, <1>11, <1>12, <1>14, <1>15, SettleKeeps

LEMMA ProfileKeeps ==
    ASSUME AccountsIInv, NEW r \in Reqs, Profile(r) PROVE Kept(r)
<1> DEFINE u == job[r].of
           made == [gen |-> born[u] + 1, active |-> TRUE, role |-> "developer", custom |-> NoRole, pw |-> 0]
<1>1. /\ job[r].at = "exchange"
      /\ UNCHANGED <<user, defined, started, code, issued>>
      /\ \/ Found(u) /\ Join(r, Copy("oauth", u, user[u]), {u}, {}) /\ UNCHANGED <<base, born>>
         \/ Leave(r, user, FALSE) /\ UNCHANGED <<raced, born>>
         \/ /\ ~Found(u) /\ born[u] < MaxGen /\ born' = [born EXCEPT ![u] = @ + 1]
            /\ Join(r, Copy("oauth", u, made), {u}, Columns) /\ UNCHANGED base
  BY DEF Profile
<1>2. /\ job[r] \in Job /\ JobOK(r) /\ u \in Users
      /\ user[u] \in Row /\ born \in [Users -> 0 .. MaxGen] /\ born[u] \in Nat
  BY Bounds DEF AccountsIInv, AccountsTypeOK, Job
<1>3. job[r].kind = "oauth" /\ Scope(r) = {}
  BY <1>1, <1>2, ScopeIs DEF JobOK, Writing, Kinds
<1>4. /\ started' \in 0 .. 2 * MaxRequests /\ issued' \in 0 .. 2 * MaxRequests
      /\ code' \in [of : Users, gen : 0 .. MaxGen]
  BY <1>1 DEF AccountsIInv, AccountsTypeOK
<1>5. ASSUME NEW row \in Row, NEW columns \in SUBSET Columns,
             Join(r, Copy("oauth", u, row), {u}, columns), UNCHANGED base,
             born' \in [Users -> 0 .. MaxGen], \A v \in Users \ {u} : born'[v] = born[v],
             Fresh(Copy("oauth", u, row), u, columns)
      PROVE  Kept(r)
  <2> DEFINE j == Copy("oauth", u, row)
  <2>1. j \in Job /\ j.kind = "oauth" /\ j.at = "save" /\ j.of = u
    BY <1>2, CopyIs, CopyType DEF Kinds
  <2> HIDE DEF j
  <2>2. Join(r, j, {u}, columns) /\ Fresh(j, u, columns)
    BY <1>5 DEF j
  <2>3. /\ AccountsTypeOK'
        /\ job'[r] = j /\ \A q \in Reqs \ {r} : job'[q] = job[q]
    BY <1>1, <1>2, <1>4, <1>5, <2>1, <2>2, JoinType DEF AccountsIInv
  <2>4. JobOK(r)' /\ Scope(r)' = {u}
    BY <2>1, <2>3 DEF JobOK, Scope, Writing
  <2>5. Joins(r, j, {u}, columns)
    BY <1>1, <1>2, <1>3, <1>5, <2>1, <2>2, <2>4 DEF Joins
  <2>6. CodeOK'
    BY <1>1, <2>1, <2>3, CodeKept DEF Exchanging, AccountsIInv
  <2> QED
    BY <2>1, <2>3, <2>4, <2>5, <2>6, JoinKeeps
<1>6. CASE Found(u) /\ Join(r, Copy("oauth", u, user[u]), {u}, {}) /\ UNCHANGED <<base, born>>
  <2>1. Copy("oauth", u, user[u]).copies[u] = user[u]
    BY <1>2, CopyIs DEF Kinds
  <2>2. Fresh(Copy("oauth", u, user[u]), u, {})
    BY <1>6, <2>1 DEF Fresh
  <2> QED
    BY <1>2, <1>5, <1>6, <2>2
<1>7. CASE Leave(r, user, FALSE) /\ UNCHANGED <<raced, born>>
  <2>1. defined' \subseteq Roles /\ raced \subseteq raced' /\ raced' \subseteq Users
    BY <1>1, <1>7 DEF AccountsIInv, AccountsTypeOK
  <2> QED
    BY <1>1, <1>7, <2>1, EndKeeps
<1>8. CASE /\ ~Found(u) /\ born[u] < MaxGen /\ born' = [born EXCEPT ![u] = @ + 1]
           /\ Join(r, Copy("oauth", u, made), {u}, Columns) /\ UNCHANGED base
  <2>1. born[u] + 1 \in 0 .. MaxGen /\ 0 \in 0 .. MaxPw
    BY <1>2, <1>8, AccountsAssumption
  <2>2. made \in Row /\ made.gen = born[u] + 1
    BY <2>1 DEF Row
  <2>3. /\ born' \in [Users -> 0 .. MaxGen] /\ born'[u] = born[u] + 1
        /\ \A v \in Users \ {u} : born'[v] = born[v]
    BY <1>2, <1>8, <2>1
  <2> HIDE DEF made
  <2>4. Copy("oauth", u, made).copies[u] = made /\ Copy("oauth", u, made).at = "save"
    BY <1>2, <2>2, CopyIs DEF Kinds
  <2>5. Fresh(Copy("oauth", u, made), u, Columns)
    BY <1>8, <2>2, <2>3, <2>4 DEF Fresh, Writing
  <2> QED
    BY <1>5, <1>8, <2>2, <2>3, <2>5
<1> QED
  BY <1>1, <1>6, <1>7, <1>8

LEMMA ListUsersKeeps ==
    ASSUME AccountsIInv, NEW r \in Reqs, ListUsers(r) PROVE Kept(r)
<1> DEFINE us == {u \in Users : Found(u) /\ user[u].custom = job[r].role}
           copies == [u \in Users |-> IF u \in us THEN [user[u] EXCEPT !.custom = NoRole] ELSE NoUser]
           j == [job[r] EXCEPT !.at = "next", !.todo = us, !.copies = copies]
<1>1. /\ job[r].at = "list" /\ Join(r, j, us, {"custom"})
      /\ UNCHANGED <<user, base, started, born, defined, code, issued>>
  BY DEF ListUsers, Rest
<1>2. job[r] \in Job /\ JobOK(r)
  BY Bounds DEF AccountsIInv
<1>3. job[r].kind = "drop" /\ job[r].todo = {} /\ Scope(r) = {}
  BY <1>1, <1>2, ScopeIs DEF JobOK, Writing, Kinds
<1>4. \A u \in Users : [user[u] EXCEPT !.custom = NoRole] \in Row
  BY Bounds DEF Row
<1>5. copies \in [Users -> Row] /\ us \in SUBSET Users
  BY <1>4, Rows
<1>6. j \in Job /\ j.kind = "drop" /\ j.at = "next" /\ j.todo = us /\ j.copies = copies
  BY <1>2, <1>3, <1>5 DEF Job, Stages
<1>7. ASSUME NEW u \in us PROVE Fresh(j, u, {"custom"})
  <2>1. j.copies[u] = [user[u] EXCEPT !.custom = NoRole] /\ user[u] \in Row
    BY <1>6, Bounds
  <2> QED
    BY <1>1, <1>6, <2>1 DEF Fresh, Columns, Row
<1> HIDE DEF j, copies, us
<1>8. /\ started' \in 0 .. 2 * MaxRequests /\ issued' \in 0 .. 2 * MaxRequests
      /\ code' \in [of : Users, gen : 0 .. MaxGen] /\ born' \in [Users -> 0 .. MaxGen]
      /\ {"custom"} \in SUBSET Columns
  BY <1>1 DEF AccountsIInv, AccountsTypeOK, Columns
<1>9. /\ AccountsTypeOK'
      /\ job'[r] = j /\ \A q \in Reqs \ {r} : job'[q] = job[q]
  BY <1>1, <1>5, <1>6, <1>8, JoinType DEF AccountsIInv
<1>10. JobOK(r)' /\ Scope(r)' = us
  BY <1>6, <1>9 DEF JobOK, Scope
<1>11. Joins(r, j, us, {"custom"})
  BY <1>1, <1>3, <1>5, <1>6, <1>7, <1>8, <1>10 DEF Joins
<1>12. CodeOK'
  BY <1>1, <1>6, <1>9, CodeKept DEF Exchanging, AccountsIInv
<1> QED
  BY <1>6, <1>9, <1>10, <1>11, <1>12, JoinKeeps

-----------------------------------------------------------------------------
(* Authorization codes, and the theorem *)

LEMMA SameKeeps ==
    ASSUME AccountsIInv, UNCHANGED <<user, born, job, base, asked, lone, raced, seeded>>,
           AccountsTypeOK', CodeOK'
    PROVE  AccountsIInv'
<1>1. \A r \in Reqs : /\ Scope(r)' = Scope(r) /\ \A u : Holds(r, u)' <=> Holds(r, u)
                      /\ \A u : Others(r, u)' = Others(r, u)
  <2>1. \A r \in Reqs : Scope(r)' = Scope(r)
    BY DEF Scope
  <2> QED
    BY <2>1 DEF Holds, Others
<1>2. \A r \in Reqs : JobOK(r)' /\ AsksAll(r)'
  BY <1>1 DEF AccountsIInv, JobOK, AsksAll
<1>3. \A u \in Users : Latest(u)' /\ \A c \in Columns : Unasked(u, c)'
  BY <1>1 DEF AccountsIInv, Latest, Unasked, Found
<1>4. \A r \in Reqs, u \in Users : Sole(r, u)' => Knows(r, u)'
  BY <1>1 DEF AccountsIInv, Sole, Knows, Found
<1>5. SeedOK' /\ \A r \in Reqs, u \in Users : Holds(r, u)' => job'[r].copies[u].gen <= born'[u]
  BY <1>1 DEF AccountsIInv, SeedOK
<1> QED
  BY <1>2, <1>3, <1>4, <1>5 DEF AccountsIInv

LEMMA AuthorizeKeeps ==
    ASSUME AccountsIInv, NEW u \in Users, Authorize(u) PROVE AccountsIInv'
<1>1. started' = started + 1 /\ started' \in 0 .. 2 * MaxRequests /\ started' > 0
  <2>1. started \in Nat /\ started' = started + 1 /\ started' <= 2 * MaxRequests
    BY Bounds DEF Authorize, Count
  <2> QED
    BY <2>1, AccountsAssumption
<1>2. /\ UNCHANGED <<user, born, defined, job, base, asked, lone, raced, seeded>>
      /\ issued' = 0 /\ code' = [of |-> u, gen |-> user[u].gen]
      /\ \A r \in Reqs : job[r].kind # "token"
  BY DEF Authorize
<1>3. user[u].gen \in 0 .. MaxGen /\ 0 \in 0 .. 2 * MaxRequests
  BY Bounds, AccountsAssumption DEF Row
<1>4. AccountsTypeOK'
  BY <1>1, <1>2, <1>3 DEF AccountsIInv, AccountsTypeOK
<1>5. CodeOK'
  BY <1>1, <1>2 DEF CodeOK, Exchanging
<1> QED
  BY <1>2, <1>4, <1>5, SameKeeps

LEMMA ExpireKeeps ==
    ASSUME AccountsIInv, ExpireCode PROVE AccountsIInv'
<1>1. AccountsTypeOK'
  BY Rows DEF ExpireCode, AccountsIInv, AccountsTypeOK
<1>2. CodeOK'
  BY DEF ExpireCode, AccountsIInv, CodeOK, Exchanging
<1> QED
  BY <1>1, <1>2, SameKeeps DEF ExpireCode

LEMMA ExchangeKeeps ==
    ASSUME AccountsIInv, NEW r \in Reqs, Exchange(r) PROVE Kept(r)
<1>1. /\ code # NoCode /\ code' = NoCode /\ job[r].at = "idle" /\ Join(r, Holder, {}, {})
      /\ UNCHANGED <<user, base, born, defined, issued>>
  BY DEF Exchange, Accept
<1>2. started' \in 0 .. 2 * MaxRequests /\ started' > 0
  <2>1. started \in Nat /\ started' <= 2 * MaxRequests /\ started' \in {started + 1, started + 2}
    BY Bounds DEF Exchange, Accept, Count
  <2> QED
    BY <2>1, AccountsAssumption
<1>3. Holder \in Job /\ Holder.kind = "token" /\ Holder.at = "token"
  <2>1. code.of \in Users /\ code.gen \in 0 .. MaxGen
    BY DEF AccountsIInv, AccountsTypeOK
  <2>2. [NoUser EXCEPT !.gen = code.gen] \in Row
    BY <2>1, Rows DEF Row
  <2>3. [NoJob.copies EXCEPT ![code.of] = [NoUser EXCEPT !.gen = code.gen]] \in [Users -> Row]
    BY <2>1, <2>2, Rows
  <2> QED
    BY <2>1, <2>3, Rows DEF Holder, Job, Kinds, Stages
<1>4. /\ AccountsTypeOK'
      /\ job'[r] = Holder /\ \A q \in Reqs \ {r} : job'[q] = job[q]
  <2>1. /\ born' \in [Users -> 0 .. MaxGen] /\ issued' \in 0 .. 2 * MaxRequests
        /\ code' \in [of : Users, gen : 0 .. MaxGen]
    BY <1>1, Rows DEF AccountsIInv, AccountsTypeOK
  <2>2. {} \in SUBSET Users /\ {} \in SUBSET Columns
    OBVIOUS
  <2>3. AccountsTypeOK /\ Join(r, Holder, {}, {}) /\ UNCHANGED <<user, base, defined>>
    BY <1>1 DEF AccountsIInv
  <2> QED
    BY <1>2, <1>3, <2>1, <2>2, <2>3, JoinType
<1>5. JobOK(r)' /\ Scope(r)' = {} /\ Scope(r) = {}
  <2>1. job[r] \in Job /\ JobOK(r)
    BY Bounds DEF AccountsIInv
  <2> QED
    BY <1>1, <1>3, <1>4, <2>1, ScopeIs DEF JobOK, Scope
<1>6. Joins(r, Holder, {}, {})
  BY <1>1, <1>3, <1>5 DEF Joins
<1>7. CodeOK'
  <2>1. issued = 0 /\ \A q \in Reqs : ~Exchanging(q)
    BY <1>1 DEF AccountsIInv, CodeOK
  <2>2. \A q \in Reqs : Exchanging(q)' => q = r
    BY <1>4, <2>1 DEF Exchanging
  <2> QED
    BY <1>1, <1>2, <2>1, <2>2 DEF CodeOK
<1> QED
  BY <1>3, <1>4, <1>5, <1>6, <1>7, JoinKeeps

LEMMA BeginKeeps ==
    ASSUME AccountsIInv, NEW r \in Reqs,
           Begin(r) \/ \E c \in Roles, ps \in SUBSET Perms : PutRole(r, c, ps)
    PROVE  Kept(r)
<1>1. ASSUME NEW u \in Users, Callback(r, u) PROVE Kept(r)
  <2> DEFINE j == [NoJob EXCEPT !.kind = "oauth", !.at = "exchange", !.of = u]
  <2>1. j \in Job /\ j.kind = "oauth" /\ j.at = "exchange"
    BY Rows DEF Job, Kinds, Stages
  <2>2. Accept(r, j, {}, {}) /\ UNCHANGED <<user, base, born, defined, code, issued>>
    BY <1>1 DEF Callback, Rest
  <2> HIDE DEF j
  <2> QED
    BY <2>1, <2>2, OtherKeeps
<1>2. ASSUME NEW c \in Roles, DropRole(r, c) PROVE Kept(r)
  <2> DEFINE j == [NoJob EXCEPT !.kind = "drop", !.at = "list", !.role = c]
  <2>1. j \in Job /\ j.kind = "drop" /\ j.at = "list" /\ j.todo = {}
    BY Rows DEF Job, Kinds, Stages
  <2>2. Accept(r, j, {}, {}) /\ UNCHANGED <<user, base, born, defined, code, issued>>
    BY <1>2 DEF DropRole, Rest
  <2> HIDE DEF j
  <2> QED
    BY <2>1, <2>2, OtherKeeps
<1>3. ASSUME NEW c \in Roles, NEW ps \in SUBSET Perms, PutRole(r, c, ps) PROVE Kept(r)
  <2> DEFINE j == [NoJob EXCEPT !.kind = "role", !.at = "saveRole", !.role = c, !.want = ps]
  <2>1. j \in Job /\ j.kind = "role" /\ j.at = "saveRole" /\ j.role \in Roles
    BY Rows DEF Job, Kinds, Stages
  <2>2. Accept(r, j, {}, {}) /\ UNCHANGED <<user, base, born, defined, code, issued>>
    BY <1>3 DEF PutRole, Rest
  <2> HIDE DEF j
  <2> QED
    BY <2>1, <2>2, OtherKeeps
<1>4. CASE Begin(r)
  BY <1>1, <1>2, <1>4, AccountKeeps, DeleteKeeps, CreateKeeps, ExchangeKeeps, SeedKeeps DEF Begin
<1> QED
  BY <1>3, <1>4

LEMMA ContinueKeeps ==
    ASSUME AccountsIInv, NEW r \in Reqs, Continue(r) PROVE Kept(r)
BY ProfileKeeps, SignKeeps, SeedAdminKeeps, RemoveDemoKeeps, ListUsersKeeps, RemoveRoleKeeps,
   NextUserKeeps, SelectKeeps, UpdateKeeps, RemoveKeeps DEF Continue

LEMMA AccountsStep == AccountsIInv /\ [Next]_vars => AccountsIInv'
<1> SUFFICES ASSUME AccountsIInv, [Next]_vars PROVE AccountsIInv'
  OBVIOUS
<1>1. ASSUME UNCHANGED accounts PROVE AccountsIInv'
  <2>1. AccountsTypeOK' /\ CodeOK'
    BY <1>1 DEF accounts, AccountsIInv, AccountsTypeOK, CodeOK, Exchanging
  <2> QED
    BY <1>1, <2>1, SameKeeps DEF accounts
<1>2. ASSUME NEW r \in Reqs,
             \/ Begin(r) \/ Continue(r) \/ AbandonUncleared(r) \/ AnswerClear(r) \/ DropClear(r)
             \/ \E c \in Roles, ps \in SUBSET Perms : PutRole(r, c, ps)
             \/ SaveRole(r) \/ ListRole(r) \/ ClearRole(r)
      PROVE  AccountsIInv'
  BY <1>2, BeginKeeps, ContinueKeeps, AbandonKeeps, AnswerKeeps, UserClearedKeeps, RoleKeeps,
     ClearRoleKeeps DEF AbandonUncleared, AnswerClear, DropClear, Kept
<1>3. ASSUME NEW k \in Checks, NEW u \in Callers, Authenticate(k, u) PROVE AccountsIInv'
  BY <1>1, <1>3 DEF Authenticate
<1>4. ASSUME NEW k \in Checks, Hit(k) \/ Miss(k) \/ ReadRole(k) \/ FillCache(k) \/ Served(k)
      PROVE  AccountsIInv'
  BY <1>1, <1>4 DEF Hit, Miss, ReadRole, FillCache, Served
<1>5. CASE Tick \/ UNCHANGED vars
  BY <1>1, <1>5 DEF Tick, vars
<1> QED
  BY <1>2, <1>3, <1>4, <1>5, AuthorizeKeeps, ExpireKeeps DEF Next

\* However logins, profile changes, passwords, role changes and deletions, account deletions,
\* seedings and OAuth exchanges overlap and fail (routes/auth.ts, lib/oauth-login.ts,
\* lib/seed-admin.ts): a column that nobody asks to change stays as its last writer left it, a
\* seeding by itself leaves the administrator's account usable, a code gives tokens once.
THEOREM OnlyAsAsked == Spec => []AccountsInv
<1>1. Init => AccountsIInv
  BY AccountsInitIInv DEF Init
<1>2. AccountsIInv /\ [Next]_vars => AccountsIInv'
  BY AccountsStep
<1> QED
  BY <1>1, <1>2, AccountsIInvImplies, PTL DEF Spec

-----------------------------------------------------------------------------
(* Permissions *)

Reading(k) == check[k].at \in {"resolve", "role", "fill"}

AgesOK ==
    /\ \A u \in Users, g \in 1 .. MaxGen : cache[u][g].left > 0 =>
         g <= born[u] /\ cache[u][g].age + cache[u][g].left <= TTL + MaxAwait
    /\ \A k \in Checks :
        /\ check[k].at = "granted" => check[k].age <= TTL + MaxAwait
        /\ Reading(k) => check[k].age <= MaxAwait /\ check[k].row.gen \in 1 .. born[check[k].of]

Excused(u) == \E r \in Reqs : Excuses(r, u)

\* Nothing is known yet of an account about to be made.
Unknown(u) ==
    ~Found(u) /\ (\E r \in Reqs : Holds(r, u)) =>
        /\ cache[u][born[u]].left = 0
        /\ \A k \in Checks : Reading(k) /\ check[k].of = u => check[k].row.gen # born[u]

\* What a check in flight has read, or computed, is no more than the account grants.
Truly(k, u) ==
    IF check[k].at = "fill" THEN check[k].perms \subseteq Effective(u)
    ELSE /\ check[k].row.custom = user[u].custom
         /\ check[k].row.role = user[u].role \/ user[u].role = "admin"

Granted(u) ==
    Found(u) /\ ~Excused(u) =>
        /\ cache[u][user[u].gen].left > 0 => cache[u][user[u].gen].perms \subseteq Effective(u)
        /\ \A k \in Checks :
            Reading(k) /\ check[k].of = u /\ check[k].row.gen = user[u].gen => Truly(k, u)

CacheTypeOK ==
    /\ perms \in [Roles -> SUBSET Perms]
    /\ cache \in [Users -> [1 .. MaxGen -> Entry]]
    /\ check \in [Checks -> Check]
    /\ crossed \subseteq Users

PermissionsIInv ==
    /\ CacheTypeOK /\ AgesOK
    /\ \A u \in Users \ raced : Unknown(u) /\ (u \notin crossed => Granted(u))

LEMMA PermissionsIInvImplies == AccountsIInv /\ PermissionsIInv => PermissionsInv
<1> SUFFICES ASSUME AccountsIInv, PermissionsIInv PROVE PermissionsInv
  OBVIOUS
<1>1. TypeOK /\ GrantsAreRecent
  BY DEF AccountsIInv, PermissionsIInv, CacheTypeOK, AgesOK, TypeOK, GrantsAreRecent
<1>2. ChangeTakesEffect
  <2> SUFFICES ASSUME NEW u \in Users \ (raced \cup crossed), Found(u), cache[u][user[u].gen].left > 0,
                      \A r \in Reqs : ~(\/ job[r].at \in {"answer", "clear"} /\ job[r].of = u
                                        \/ job[r].at \in {"listRole", "clearRole"})
               PROVE  cache[u][user[u].gen].perms \subseteq Effective(u)
    BY DEF ChangeTakesEffect
  <2>1. ~Excused(u)
    BY DEF Excused, Excuses
  <2> QED
    BY <2>1 DEF PermissionsIInv, Granted
<1> QED
  BY <1>1, <1>2 DEF PermissionsInv

LEMMA PermissionsInitIInv == Init => PermissionsIInv
<1> SUFFICES ASSUME Init PROVE PermissionsIInv
  OBVIOUS
<1>1. 0 \in 0 .. TTL /\ 0 \in Nat
  BY CacheAssumption
<1>2. NoEntry \in Entry /\ NoEntry.left = 0
  BY <1>1 DEF NoEntry, Entry
<1>3. NoCheck \in Check /\ NoCheck.at = "idle"
  BY <1>1, Rows, AccountsAssumption DEF NoCheck, Check
<1>4. CacheTypeOK
  BY <1>2, <1>3 DEF Init, CacheTypeOK
<1>5. \A k \in Checks : check[k].at = "idle" /\ ~Reading(k)
  BY <1>3 DEF Init, Reading
<1>6. \A u \in Users, g \in 1 .. MaxGen : cache[u][g].left = 0
  BY <1>2 DEF Init
<1>7. AgesOK
  BY <1>5, <1>6 DEF AgesOK
<1>8. \A u \in Users : user[u].gen = 1 /\ born[u] = 1 /\ 1 \in 1 .. MaxGen
  BY AccountsAssumption DEF Init, AccountsInit
<1> QED
  BY <1>4, <1>5, <1>6, <1>7, <1>8 DEF PermissionsIInv, Unknown, Granted

\* The role of an administrator grants all that any does.
LEMMA AdminHasAll ==
    ASSUME CacheTypeOK, NEW role \in RoleNames
    PROVE  /\ Preset[role] \subseteq Perms /\ Preset["admin"] = Perms
           /\ \A c \in Roles : perms[c] \subseteq Perms
BY CacheAssumption DEF CacheTypeOK

LEMMA EntryBounds ==
    ASSUME NEW e \in Entry PROVE e.left \in Nat /\ e.age \in Nat /\ e.perms \subseteq Perms
BY CacheAssumption DEF Entry

LEMMA CacheBounds ==
    ASSUME AccountsIInv, PermissionsIInv
    PROVE  /\ \A u \in Users : Found(u) => user[u].gen \in 1 .. MaxGen
           /\ \A u \in Users, g \in 1 .. MaxGen :
                /\ cache[u][g] \in Entry /\ cache[u][g].left \in Nat /\ cache[u][g].age \in Nat
                /\ cache[u][g].perms \subseteq Perms
           /\ \A k \in Checks : /\ check[k] \in Check /\ check[k].of \in Users /\ check[k].age \in Nat
                                /\ check[k].row \in Row /\ check[k].perms \subseteq Perms
                                /\ Reading(k) => check[k].row.gen \in 1 .. MaxGen
<1>1. \A u \in Users : /\ born[u] \in 0 .. MaxGen /\ born[u] \in Nat
                       /\ user[u].gen \in Nat /\ user[u].gen <= born[u]
  BY Bounds
<1>2. \A u \in Users : Found(u) => user[u].gen \in 1 .. MaxGen
  BY <1>1, AccountsAssumption DEF Found
<1>3. \A u \in Users, g \in 1 .. MaxGen :
        /\ cache[u][g] \in Entry /\ cache[u][g].left \in Nat /\ cache[u][g].age \in Nat
        /\ cache[u][g].perms \subseteq Perms
  <2>1. \A u \in Users, g \in 1 .. MaxGen : cache[u][g] \in Entry
    BY DEF PermissionsIInv, CacheTypeOK
  <2> QED
    BY <2>1, EntryBounds
<1>4. \A k \in Checks : /\ check[k] \in Check /\ check[k].of \in Users /\ check[k].age \in Nat
                        /\ check[k].row \in Row /\ check[k].perms \subseteq Perms
  BY DEF PermissionsIInv, CacheTypeOK, Check
<1>5. \A k \in Checks : Reading(k) => check[k].row.gen \in 1 .. MaxGen
  BY <1>1, <1>4, AccountsAssumption DEF PermissionsIInv, AgesOK
<1> QED
  BY <1>2, <1>3, <1>4, <1>5

-----------------------------------------------------------------------------
(* Requests, beside the cache *)

LEMMA ExcusedStays ==
    ASSUME NEW r \in Reqs, NEW u \in Users, Tame(r), user'[u].gen = user[u].gen,
           user'[u].custom = user[u].custom, Excused(u), Excuses(r, u) => Excuses(r, u)'
    PROVE  Excused(u)'
<1>1. PICK q \in Reqs : Excuses(q, u)
  BY DEF Excused
<1>2. CASE q # r
  BY <1>1, <1>2 DEF Tame, Excuses, Excused
<1>3. CASE q = r
  BY <1>1, <1>3 DEF Excused
<1> QED
  BY <1>2, <1>3

\* What a step that leaves the cache and the checks keeps of what is unknown.
LEMMA UnknownKept ==
    ASSUME AccountsIInv, PermissionsIInv, NEW r \in Reqs, Kept(r), CacheTypeOK',
           \A v \in Users, g \in 1 .. MaxGen : cache'[v][g].left > 0 => cache'[v][g] = cache[v][g],
           check' = check, NEW u \in Users \ raced'
    PROVE  Unknown(u)'
<1>1. /\ \A q \in Reqs \ {r} : job'[q] = job[q]
      /\ u \notin raced /\ born'[u] \in {born[u], born[u] + 1} /\ Turns(r, u) /\ Makes(r, u)
  BY DEF Kept, Tame
<1>2. SUFFICES ASSUME user'[u].gen = 0, NEW q \in Reqs, Holds(q, u)'
               PROVE  /\ cache'[u][born'[u]].left = 0
                      /\ \A k \in Checks : Reading(k) /\ check[k].of = u => check[k].row.gen # born'[u]
  BY DEF Unknown, Found, Reading
<1>3. born[u] \in Nat /\ born'[u] \in 0 .. MaxGen /\ born'[u] \in Nat
  <2>1. born'[u] \in 0 .. MaxGen
    BY DEF Kept, AccountsIInv, AccountsTypeOK
  <2> QED
    BY <2>1, Bounds, AccountsAssumption
<1>4. CASE born'[u] = born[u] + 1
  <2>1. born'[u] \in 1 .. MaxGen /\ ~(born'[u] <= born[u])
    BY <1>3, <1>4
  <2>2. cache'[u][born'[u]].left \in Nat
    BY <2>1, EntryBounds DEF CacheTypeOK
  <2>3. ~(cache[u][born'[u]].left > 0)
    BY <2>1 DEF PermissionsIInv, AgesOK
  <2>4. cache'[u][born'[u]].left = 0
    BY <2>1, <2>2, <2>3
  <2>5. ASSUME NEW k \in Checks, Reading(k), check[k].of = u PROVE check[k].row.gen # born'[u]
    <3>1. check[k].row.gen \in 1 .. born[u]
      BY <2>5 DEF PermissionsIInv, AgesOK
    <3> QED
      BY <1>3, <2>1, <3>1
  <2> QED
    BY <2>4, <2>5
<1>5. CASE born'[u] = born[u] /\ born'[u] # born[u] + 1
  <2>1. ~Found(u) /\ Holds(q, u)
    <3>1. CASE q = r
      BY <1>1, <1>2, <1>5, <3>1 DEF Makes
    <3>2. CASE q # r
      <4>1. Holds(q, u)
        BY <1>1, <1>2, <3>2, OthersStay
      <4>2. u \notin Scope(r)
        BY <1>1, <3>2, <4>1 DEF AccountsIInv, Latest, Holds
      <4> QED
        BY <1>1, <1>2, <4>1, <4>2 DEF Turns, Found, Holds
    <3> QED
      BY <3>1, <3>2
  <2>2. /\ cache[u][born[u]].left = 0
        /\ \A k \in Checks : Reading(k) /\ check[k].of = u => check[k].row.gen # born[u]
    BY <1>1, <2>1 DEF PermissionsIInv, Unknown
  <2>3. cache'[u][born[u]].left = 0
    <3>1. born[u] \in 1 .. MaxGen
      <4>1. Sole(q, u)
        BY <1>1, <2>1 DEF Sole, Holds
      <4>2. job[q].copies[u].gen # 0 /\ job[q].copies[u].gen = born[u]
        BY <1>1, <2>1, <4>1 DEF AccountsIInv, Knows, Latest, Holds
      <4> QED
        BY <1>3, <1>5, <4>2
    <3>2. cache'[u][born[u]].left \in Nat
      BY <3>1, EntryBounds DEF CacheTypeOK
    <3> QED
      BY <2>2, <3>1, <3>2
  <2> QED
    BY <1>5, <2>2, <2>3
<1> QED
  BY <1>1, <1>4, <1>5

LEMMA RequestKeeps ==
    ASSUME AccountsIInv, PermissionsIInv, NEW r \in Reqs, Kept(r), UNCHANGED <<perms, cache, check>>,
           crossed \subseteq crossed', crossed' \subseteq Users,
           \A u \in Users \ (raced' \cup crossed') :
              Found(u) /\ user'[u].gen # 0 /\ Excuses(r, u) => Excuses(r, u)'
    PROVE  PermissionsIInv'
<1>1. CacheTypeOK'
  BY DEF PermissionsIInv, CacheTypeOK
<1>2. \A u \in Users : born[u] \in Nat /\ born'[u] \in {born[u], born[u] + 1}
  BY Bounds DEF Kept, Tame
<1>3. AgesOK'
  <2>1. \A u \in Users, g \in 1 .. MaxGen : g <= born[u] => g <= born'[u]
    BY <1>2
  <2>2. \A u \in Users : \A g \in 1 .. born[u] : g \in 1 .. born'[u]
    BY <1>2
  <2>3. \A k \in Checks : Reading(k)' <=> Reading(k)
    BY DEF Reading
  <2>4. \A k \in Checks : check[k].of \in Users
    BY CacheBounds
  <2> QED
    BY <2>1, <2>2, <2>3, <2>4 DEF PermissionsIInv, AgesOK
<1>4. ASSUME NEW u \in Users \ raced' PROVE Unknown(u)'
  BY <1>1, <1>4, UnknownKept
<1>5. ASSUME NEW u \in Users \ raced', u \notin crossed' PROVE Granted(u)'
  <2> SUFFICES ASSUME user'[u].gen # 0, ~Excused(u)'
               PROVE  /\ cache[u][user'[u].gen].left > 0 =>
                           cache[u][user'[u].gen].perms \subseteq Effective(u)'
                      /\ \A k \in Checks : Reading(k) /\ check[k].of = u /\ check[k].row.gen = user'[u].gen =>
                           Truly(k, u)'
    BY DEF Granted, Found, Reading
  <2>1. u \notin raced /\ u \notin crossed /\ Turns(r, u)
    BY <1>5 DEF Kept, Tame
  <2>2. Unknown(u) /\ Granted(u)
    BY <2>1 DEF PermissionsIInv
  <2>3. CASE ~Found(u) /\ Holds(r, u) /\ user'[u].gen = born[u]
    <3>1. ~(cache[u][born[u]].left > 0)
      BY <2>2, <2>3 DEF Unknown
    <3> QED
      BY <2>2, <2>3, <3>1 DEF Unknown
  <2>4. CASE /\ user'[u].gen = user[u].gen /\ user'[u].custom = user[u].custom
             /\ user'[u].role \in {user[u].role, "admin"}
    <3>1. Found(u) /\ ~Excused(u)
      BY <1>5, <2>4, ExcusedStays DEF Found, Kept
    <3>2. Effective(u) \subseteq Effective(u)'
      <4>1. user[u].role \in RoleNames
        BY Bounds DEF Row, RoleNames
      <4>2. Preset[user[u].role] \subseteq Preset[user'[u].role]
        BY <2>4, <4>1, AdminHasAll DEF PermissionsIInv
      <4> QED
        BY <2>4, <4>2 DEF Effective
    <3>3. \A k \in Checks : Truly(k, u) => Truly(k, u)'
      BY <2>4, <3>2 DEF Truly
    <3> QED
      BY <2>2, <2>4, <3>1, <3>2, <3>3 DEF Granted
  <2>5. CASE Excuses(r, u)'
    BY <2>5 DEF Excused
  <2>6. CASE user'[u] = user[u]
    BY <2>4, <2>6
  <2> QED
    BY <2>1, <2>3, <2>4, <2>5, <2>6 DEF Turns
<1> QED
  BY <1>1, <1>3, <1>4, <1>5 DEF PermissionsIInv

\* Clearing the entries a request excuses.
LEMMA ClearKeeps ==
    ASSUME AccountsIInv, PermissionsIInv, NEW r \in Reqs, Kept(r), user' = user, born' = born,
           NEW entries \in SUBSET (Users \X (0 .. MaxGen)), Clear(entries),
           \A u \in Users \ raced' : Found(u) /\ Excuses(r, u) => <<u, user[u].gen>> \in entries
    PROVE  PermissionsIInv'
<1>1. /\ perms' = perms /\ check' = check
      /\ crossed' = crossed \cup {e[1] : e \in {f \in entries : InFlight(f[1])}}
      /\ cache' = [u \in Users |-> [g \in 1 .. MaxGen |->
                    IF <<u, g>> \in entries THEN NoEntry ELSE cache[u][g]]]
  BY DEF Clear
<1>2. NoEntry \in Entry /\ NoEntry.left = 0
  <2>1. 0 \in 0 .. TTL /\ 0 \in Nat
    BY CacheAssumption
  <2> QED
    BY <2>1 DEF NoEntry, Entry
<1>3. \A u \in Users, g \in 1 .. MaxGen :
        cache'[u][g] = IF <<u, g>> \in entries THEN NoEntry ELSE cache[u][g]
  BY <1>1
<1>4. crossed' \subseteq Users /\ crossed \subseteq crossed'
  BY <1>1 DEF PermissionsIInv, CacheTypeOK
<1>5. CacheTypeOK'
  BY <1>1, <1>2, <1>4 DEF PermissionsIInv, CacheTypeOK
<1>6. \A k \in Checks : Reading(k)' <=> Reading(k)
  BY <1>1 DEF Reading
<1>7. \A u \in Users, g \in 1 .. MaxGen : cache'[u][g].left > 0 => cache'[u][g] = cache[u][g]
  <2>1. ~(NoEntry.left > 0)
    BY <1>2
  <2>2. ASSUME NEW u \in Users, NEW g \in 1 .. MaxGen, cache'[u][g] # cache[u][g]
        PROVE  ~(cache'[u][g].left > 0)
    <3>1. cache'[u][g] = NoEntry
      BY <1>3, <2>2
    <3> QED
      BY <2>1, <3>1
  <2> QED
    BY <2>2
<1>8. AgesOK'
  BY <1>1, <1>6, <1>7 DEF PermissionsIInv, AgesOK
<1>9. ASSUME NEW u \in Users \ raced' PROVE Unknown(u)'
  BY <1>1, <1>5, <1>7, <1>9, UnknownKept
<1>10. ASSUME NEW u \in Users \ raced', u \notin crossed' PROVE Granted(u)'
  <2> SUFFICES ASSUME Found(u), ~Excused(u)'
               PROVE  /\ cache'[u][user[u].gen].left > 0 =>
                           cache'[u][user[u].gen].perms \subseteq Effective(u)'
                      /\ \A k \in Checks : Reading(k) /\ check[k].of = u /\ check[k].row.gen = user[u].gen =>
                           Truly(k, u)'
    BY <1>1, <1>6 DEF Granted, Found
  <2>1. Effective(u)' = Effective(u) /\ \A k \in Checks : Truly(k, u)' <=> Truly(k, u)
    BY <1>1 DEF Effective, Truly
  <2>2. user[u].gen \in 1 .. MaxGen
    BY CacheBounds
  <2>3. CASE <<u, user[u].gen>> \in entries
    <3>1. ~InFlight(u)
      BY <1>1, <1>10, <2>3
    <3> QED
      BY <1>2, <1>3, <2>2, <2>3, <3>1 DEF InFlight, Reading
  <2>4. CASE <<u, user[u].gen>> \notin entries
    <3>1. ~Excuses(r, u)
      BY <2>4
    <3>2. ~Excused(u)
      BY <3>1, ExcusedStays DEF Kept
    <3>3. u \notin raced /\ u \notin crossed
      BY <1>4, <1>10 DEF Kept, Tame
    <3>4. Granted(u)
      BY <3>3 DEF PermissionsIInv
    <3> QED
      BY <1>7, <2>1, <2>2, <3>2, <3>4 DEF Granted
  <2> QED
    BY <2>3, <2>4
<1> QED
  BY <1>5, <1>8, <1>9, <1>10 DEF PermissionsIInv

LEMMA AnswerClearKeeps ==
    ASSUME AccountsIInv, PermissionsIInv, NEW r \in Reqs, AnswerClear(r) PROVE PermissionsIInv'
<1> DEFINE u == job[r].of copy == job[r].copies[u]
<1>1. Kept(r) /\ job[r].at = "answer" /\ user' = user /\ born' = born /\ raced' = raced
  BY AnswerKeeps DEF AnswerClear, Answer, Rest
<1>2. job[r] \in Job /\ JobOK(r) /\ u \in Users /\ copy \in Row
  BY Bounds DEF AccountsIInv, Job
<1>3. CASE ~Clears(r)
  <2>1. UNCHANGED <<perms, cache, check, crossed>>
    BY <1>3 DEF AnswerClear, Unrelated
  <2>2. \A v : ~Excuses(r, v)
    BY <1>1, <1>3 DEF Clears, Excuses
  <2>3. crossed \subseteq crossed' /\ crossed' \subseteq Users
    BY <2>1 DEF PermissionsIInv, CacheTypeOK
  <2> QED
    BY <1>1, <2>1, <2>2, <2>3, RequestKeeps
<1>4. CASE Clears(r)
  <2>1. Clear({<<u, copy.gen>>})
    BY <1>4 DEF AnswerClear
  <2>2. {<<u, copy.gen>>} \in SUBSET (Users \X (0 .. MaxGen))
    BY <1>2 DEF Row
  <2>3. u \in Scope(r)
    BY <1>2, <1>4, ScopeIs DEF Clears
  <2>4. ASSUME NEW v \in Users \ raced', Found(v), Excuses(r, v)
        PROVE  <<v, user[v].gen>> \in {<<u, copy.gen>>}
    <3>1. v = u
      BY <1>1, <2>4 DEF Excuses
    <3>2. user[u] = copy
      BY <1>1, <1>2, <2>3, <2>4, <3>1 DEF AccountsIInv, Sole, Knows
    <3> QED
      BY <3>1, <3>2
  <2> DEFINE entries == {<<u, copy.gen>>}
  <2> HIDE DEF entries
  <2> QED
    BY <1>1, <2>1, <2>2, <2>4, ClearKeeps DEF entries
<1> QED
  BY <1>3, <1>4

LEMMA DropClearKeeps ==
    ASSUME AccountsIInv, PermissionsIInv, NEW r \in Reqs, DropClear(r) PROVE PermissionsIInv'
<1> DEFINE u == job[r].of copy == job[r].copies[u]
<1>1. Kept(r) /\ job[r].at = "clear" /\ user' = user /\ born' = born /\ raced' = raced
  BY UserClearedKeeps DEF DropClear, UserCleared, Rest
<1>2. job[r] \in Job /\ JobOK(r) /\ u \in Users /\ copy \in Row
  BY Bounds DEF AccountsIInv, Job
<1>3. Clear({<<u, copy.gen>>})
  BY DEF DropClear
<1>4. {<<u, copy.gen>>} \in SUBSET (Users \X (0 .. MaxGen))
  BY <1>2 DEF Row
<1>5. u \in Scope(r)
  <2>1. job[r].kind = "drop"
    BY <1>1, <1>2, ScopeIs DEF JobOK, Writing, Kinds
  <2> QED
    BY <1>1, <1>2, <2>1, ScopeIs DEF JobOK
<1>6. ASSUME NEW v \in Users \ raced', Found(v), Excuses(r, v)
      PROVE  <<v, user[v].gen>> \in {<<u, copy.gen>>}
  <2>1. v = u
    BY <1>1, <1>6 DEF Excuses
  <2>2. user[u] = copy
    BY <1>1, <1>2, <1>5, <1>6, <2>1 DEF AccountsIInv, Sole, Knows
  <2> QED
    BY <2>1, <2>2
<1> DEFINE entries == {<<u, copy.gen>>}
<1> HIDE DEF entries
<1> QED
  BY <1>1, <1>3, <1>4, <1>6, ClearKeeps DEF entries

LEMMA ClearRoleClears ==
    ASSUME AccountsIInv, PermissionsIInv, NEW r \in Reqs, ClearRole(r) PROVE PermissionsIInv'
<1> DEFINE entries == {<<u, job[r].copies[u].gen>> : u \in job[r].todo}
<1>1. Kept(r) /\ job[r].at = "clearRole" /\ user' = user /\ born' = born
  BY ClearRoleKeeps DEF ClearRole, Rest
<1>2. job[r] \in Job
  BY Bounds
<1>3. entries \in SUBSET (Users \X (0 .. MaxGen))
  <2>1. \A u \in job[r].todo : u \in Users /\ job[r].copies[u] \in Row
    BY <1>2 DEF Job
  <2> QED
    BY <2>1 DEF Row
<1>4. Clear(entries)
  BY DEF ClearRole
<1>5. ASSUME NEW u \in Users, Excuses(r, u) PROVE <<u, user[u].gen>> \in entries
  BY <1>1, <1>5 DEF Excuses
<1> HIDE DEF entries
<1> QED
  BY <1>1, <1>3, <1>4, <1>5, ClearKeeps

LEMMA AbandonKeepsCache ==
    ASSUME AccountsIInv, PermissionsIInv, NEW r \in Reqs, AbandonUncleared(r) PROVE PermissionsIInv'
<1>1. /\ Kept(r) /\ user' = user
      /\ raced' = IF job[r].at \in {"answer", "clear"} THEN raced \cup {job[r].of} ELSE raced
      /\ crossed' = IF job[r].at \in {"listRole", "clearRole"} THEN Users ELSE crossed
      /\ UNCHANGED <<perms, cache, check>>
  BY AbandonKeeps DEF AbandonUncleared, Abandon
<1>2. crossed \subseteq crossed' /\ crossed' \subseteq Users
  BY <1>1 DEF PermissionsIInv, CacheTypeOK
<1>3. \A u \in Users \ (raced' \cup crossed') : ~Excuses(r, u)
  BY <1>1 DEF Excuses
<1> QED
  BY <1>1, <1>2, <1>3, RequestKeeps

\* A request at none of the stages that excuse an account keeps the permissions.
LEMMA WorkKeepsCache ==
    ASSUME AccountsIInv, PermissionsIInv, NEW r \in Reqs, Kept(r), Unrelated,
           job[r].at \notin {"answer", "clear", "listRole", "clearRole"}
    PROVE  PermissionsIInv'
<1>1. \A u : ~Excuses(r, u)
  BY DEF Excuses
<1>2. crossed \subseteq crossed' /\ crossed' \subseteq Users
  BY DEF Unrelated, PermissionsIInv, CacheTypeOK
<1> QED
  BY <1>1, <1>2, RequestKeeps DEF Unrelated

LEMMA StagesOfSteps ==
    ASSUME NEW r \in Reqs,
           \/ Begin(r) \/ Continue(r)
           \/ \E c \in Roles, ps \in SUBSET Perms : PutRole(r, c, ps)
    PROVE  job[r].at \notin {"answer", "clear", "listRole", "clearRole"}
<1>1. CASE Continue(r)
  BY <1>1 DEF Continue, Profile, SignTokens, SeedAdmin, RemoveDemo, ListUsers, RemoveRole, NextUser,
              Select, Update, Remove
<1>2. CASE Begin(r) \/ \E c \in Roles, ps \in SUBSET Perms : PutRole(r, c, ps)
  <2>1. job[r].at = "idle"
    BY <1>2 DEF Begin, Login, PatchMe, DeleteUser, Callback, SetPassword, PutUser, AssignRole,
                AssignCustom, CreateUser, Exchange, Seed, DropRole, PutRole, Change, Accept
  <2> QED
    BY <2>1
<1> QED
  BY <1>1, <1>2

LEMMA ListRoleKeepsCache ==
    ASSUME AccountsIInv, PermissionsIInv, NEW r \in Reqs, ListRole(r) PROVE PermissionsIInv'
<1>1. /\ Kept(r) /\ user' = user /\ job[r].at = "listRole"
      /\ UNCHANGED <<perms, cache, check, crossed>>
  BY RoleKeeps DEF ListRole
<1>2. ASSUME NEW u \in Users, Found(u), Excuses(r, u) PROVE Excuses(r, u)'
  <2>1. user[u].custom = job[r].role
    BY <1>1, <1>2 DEF Excuses
  <2>2. job'[r] = [job[r] EXCEPT !.at = "clearRole", !.copies = user, !.want = {},
                     !.todo = {v \in Users : Found(v) /\ user[v].custom = job[r].role}]
    BY DEF ListRole, AccountsIInv, AccountsTypeOK
  <2>3. job[r] \in Job
    BY Bounds
  <2>4. job'[r].at = "clearRole" /\ u \in job'[r].todo /\ job'[r].copies = user
    BY <1>2, <2>1, <2>2, <2>3 DEF Job
  <2> QED
    BY <1>1, <2>4 DEF Excuses
<1>3. crossed \subseteq crossed' /\ crossed' \subseteq Users
  BY <1>1 DEF PermissionsIInv, CacheTypeOK
<1> QED
  BY <1>1, <1>2, <1>3, RequestKeeps

LEMMA SaveRoleKeepsCache ==
    ASSUME AccountsIInv, PermissionsIInv, NEW r \in Reqs, SaveRole(r) PROVE PermissionsIInv'
<1> DEFINE c == job[r].role
<1>1. /\ Kept(r) /\ job[r].at = "saveRole" /\ perms' = [perms EXCEPT ![c] = job[r].want]
      /\ UNCHANGED <<user, born, raced, cache, check, crossed>>
  BY RoleKeeps DEF SaveRole
<1>2. job[r] \in Job /\ JobOK(r)
  BY Bounds DEF AccountsIInv
<1>3. c \in Roles /\ job[r].want \subseteq Perms
  BY <1>1, <1>2, ScopeIs DEF JobOK, Writing, Kinds, Job
<1>4. CacheTypeOK' /\ \A d \in Roles \ {c} : perms'[d] = perms[d]
  BY <1>1, <1>3 DEF PermissionsIInv, CacheTypeOK
<1>5. AgesOK'
  BY <1>1 DEF PermissionsIInv, AgesOK, Reading
<1>6. ASSUME NEW u \in Users \ raced' PROVE Unknown(u)'
  BY <1>1, <1>4, <1>6, UnknownKept
<1>7. job'[r].at = "listRole" /\ job'[r].role = c
  BY <1>2 DEF SaveRole, AccountsIInv, AccountsTypeOK, Job
<1>8. ASSUME NEW u \in Users \ raced', u \notin crossed' PROVE Granted(u)'
  <2> SUFFICES ASSUME Found(u), ~Excused(u)'
               PROVE  /\ cache[u][user[u].gen].left > 0 =>
                           cache[u][user[u].gen].perms \subseteq Effective(u)'
                      /\ \A k \in Checks : Reading(k) /\ check[k].of = u /\ check[k].row.gen = user[u].gen =>
                           Truly(k, u)'
    BY <1>1 DEF Granted, Found, Reading
  <2>1. ~Excuses(r, u)'
    BY DEF Excused
  <2>2. user[u].custom # c
    BY <1>1, <1>7, <2>1 DEF Excuses
  <2>3. user[u].custom \in Roles \cup {NoRole}
    BY Bounds DEF Row
  <2>4. Effective(u)' = Effective(u)
    BY <1>1, <1>4, <2>2, <2>3 DEF Effective
  <2>5. \A k \in Checks : Truly(k, u)' <=> Truly(k, u)
    BY <1>1, <2>4 DEF Truly
  <2>6. ~Excuses(r, u)
    BY <1>1 DEF Excuses
  <2>7. ~Excused(u)
    BY <1>1, <2>6, ExcusedStays DEF Kept
  <2>8. Granted(u)
    BY <1>1, <1>8 DEF PermissionsIInv
  <2> QED
    BY <2>4, <2>5, <2>7, <2>8 DEF Granted
<1> QED
  BY <1>4, <1>5, <1>6, <1>8 DEF PermissionsIInv

-----------------------------------------------------------------------------
(* Checks *)

LEMMA HeldBorn ==
    ASSUME AccountsIInv, NEW u \in Users \ raced, NEW q \in Reqs, Holds(q, u)
    PROVE  born[u] \in 1 .. MaxGen
<1>1. Sole(q, u)
  BY DEF Sole, Holds
<1>2. job[q].copies[u].gen # 0 /\ job[q].copies[u].gen = born[u]
  BY <1>1 DEF AccountsIInv, Knows, Latest, Holds
<1>3. born[u] \in 0 .. MaxGen
  BY Bounds
<1> QED
  BY <1>2, <1>3, AccountsAssumption

\* An account of which the cache and the checks are to know no more than it grants.
Settled(u) == u \notin raced /\ u \notin crossed /\ Found(u) /\ ~Excused(u)

\* A check fills the cache with what it has read.
Supplies(k, u, g) ==
    /\ Reading(k) /\ check[k].of = u /\ check[k].row.gen = g
    /\ cache'[u][g].age + cache'[u][g].left <= TTL + MaxAwait
    /\ Settled(u) /\ g = user[u].gen => cache'[u][g].perms \subseteq Effective(u)

\* A check goes on with the row it has, or reads that of an account.
Rereads(k) == LET c == check'[k] IN
    /\ c.of \in Users /\ c.age <= MaxAwait /\ c.row.gen \in 1 .. born[c.of]
    /\ \/ Reading(k) /\ c.of = check[k].of /\ c.row = check[k].row
       \/ Found(c.of) /\ c.row.gen = user[c.of].gen
    /\ \A u \in Users : u = c.of /\ Settled(u) /\ c.row.gen = user[u].gen => Truly(k, u)'

LEMMA AccountsSame ==
    ASSUME UNCHANGED accounts
    PROVE  /\ UNCHANGED <<user, born, job, raced>>
           /\ \A u : Found(u)' <=> Found(u)
           /\ \A u : Excused(u)' <=> Excused(u)
           /\ \A r \in Reqs : \A u : Holds(r, u)' <=> Holds(r, u)
<1>1. UNCHANGED <<user, born, job, raced>>
  BY DEF accounts
<1>2. \A r \in Reqs : \A u : Excuses(r, u)' <=> Excuses(r, u)
  BY <1>1 DEF Excuses
<1>3. \A r \in Reqs : Scope(r)' = Scope(r)
  BY <1>1 DEF Scope
<1> QED
  BY <1>1, <1>2, <1>3 DEF Found, Excused, Holds

LEMMA CheckKeeps ==
    ASSUME AccountsIInv, PermissionsIInv, NEW k \in Checks, UNCHANGED <<accounts, perms, crossed>>,
           CacheTypeOK', \A q \in Checks \ {k} : check'[q] = check[q],
           \A u \in Users, g \in 1 .. MaxGen : cache'[u][g] = cache[u][g] \/ Supplies(k, u, g),
           Reading(k)' => Rereads(k),
           check'[k].at = "granted" => check'[k].age <= TTL + MaxAwait
    PROVE  PermissionsIInv'
<1>1. /\ UNCHANGED <<user, born, job, raced>>
      /\ \A u : Found(u)' <=> Found(u)
      /\ \A u : Excused(u)' <=> Excused(u)
      /\ \A r \in Reqs : \A u : Holds(r, u)' <=> Holds(r, u)
  BY AccountsSame
<1>2. \A q \in Checks \ {k} : Reading(q)' <=> Reading(q)
  BY DEF Reading
<1>3. AgesOK'
  <2>1. ASSUME NEW u \in Users, NEW g \in 1 .. MaxGen, cache'[u][g].left > 0
        PROVE  g <= born[u] /\ cache'[u][g].age + cache'[u][g].left <= TTL + MaxAwait
    <3>1. CASE cache'[u][g] = cache[u][g]
      BY <2>1, <3>1 DEF PermissionsIInv, AgesOK
    <3>2. CASE Supplies(k, u, g)
      <4>1. g \in 1 .. born[u]
        BY <3>2 DEF Supplies, PermissionsIInv, AgesOK
      <4>2. born[u] \in Nat
        BY Bounds
      <4> QED
        BY <3>2, <4>1, <4>2 DEF Supplies
    <3> QED
      BY <3>1, <3>2
  <2>2. ASSUME NEW q \in Checks
        PROVE  /\ check'[q].at = "granted" => check'[q].age <= TTL + MaxAwait
               /\ Reading(q)' => check'[q].age <= MaxAwait /\ check'[q].row.gen \in 1 .. born[check'[q].of]
    BY <1>2 DEF PermissionsIInv, AgesOK, Rereads
  <2> QED
    BY <1>1, <2>1, <2>2 DEF AgesOK
<1>4. ASSUME NEW u \in Users \ raced PROVE Unknown(u)'
  <2> SUFFICES ASSUME ~Found(u), NEW r \in Reqs, Holds(r, u)
               PROVE  /\ cache'[u][born[u]].left = 0
                      /\ \A q \in Checks : Reading(q)' /\ check'[q].of = u => check'[q].row.gen # born[u]
    BY <1>1 DEF Unknown
  <2>1. born[u] \in 1 .. MaxGen
    BY HeldBorn
  <2>2. /\ cache[u][born[u]].left = 0
        /\ \A q \in Checks : Reading(q) /\ check[q].of = u => check[q].row.gen # born[u]
    BY DEF PermissionsIInv, Unknown
  <2>3. cache'[u][born[u]].left = 0
    BY <2>1, <2>2 DEF Supplies
  <2>4. Reading(k)' /\ check'[k].of = u => check'[k].row.gen # born[u]
    BY <2>2 DEF Rereads
  <2> QED
    BY <1>2, <2>2, <2>3, <2>4
<1>5. ASSUME NEW u \in Users \ raced, u \notin crossed PROVE Granted(u)'
  <2> SUFFICES ASSUME Found(u), ~Excused(u)
               PROVE  /\ cache'[u][user[u].gen].left > 0 =>
                           cache'[u][user[u].gen].perms \subseteq Effective(u)
                      /\ \A q \in Checks :
                           Reading(q)' /\ check'[q].of = u /\ check'[q].row.gen = user[u].gen =>
                              Truly(q, u)'
    BY <1>1 DEF Granted, Effective
  <2>1. user[u].gen \in 1 .. MaxGen /\ Settled(u) /\ Granted(u)
    BY <1>5, CacheBounds DEF Settled, PermissionsIInv
  <2>2. cache'[u][user[u].gen].left > 0 => cache'[u][user[u].gen].perms \subseteq Effective(u)
    BY <2>1 DEF Granted, Supplies
  <2>3. ASSUME NEW q \in Checks \ {k}, Reading(q), check[q].of = u, check[q].row.gen = user[u].gen
        PROVE  Truly(q, u)'
    <3>1. Truly(q, u)
      BY <2>1, <2>3 DEF Granted
    <3> QED
      BY <1>1, <3>1 DEF Truly, Effective
  <2>4. Reading(k)' /\ check'[k].of = u /\ check'[k].row.gen = user[u].gen => Truly(k, u)'
    BY <2>1 DEF Rereads
  <2> QED
    BY <1>2, <2>2, <2>3, <2>4
<1> QED
  BY <1>1, <1>3, <1>4, <1>5 DEF PermissionsIInv

LEMMA AuthenticateKeeps ==
    ASSUME AccountsIInv, PermissionsIInv, NEW k \in Checks, NEW u \in Users, Authenticate(k, u)
    PROVE  PermissionsIInv'
<1> DEFINE c == [NoCheck EXCEPT !.at = "resolve", !.of = u, !.row = user[u]]
<1>1. /\ Found(u) /\ check' = [check EXCEPT ![k] = c]
      /\ UNCHANGED <<accounts, perms, cache, crossed>>
  BY DEF Authenticate
<1>2. /\ user[u] \in Row /\ 0 \in Nat /\ 0 <= MaxAwait /\ user[u].gen \in 1 .. born[u]
      /\ CacheTypeOK
  BY <1>1, Bounds, CacheAssumption DEF Found, PermissionsIInv
<1>3. c \in Check /\ c.at = "resolve" /\ c.of = u /\ c.row = user[u] /\ c.age = 0
  BY <1>2 DEF NoCheck, Check
<1> HIDE DEF c
<1>4. /\ check'[k] = c /\ \A q \in Checks \ {k} : check'[q] = check[q]
      /\ CacheTypeOK'
  BY <1>1, <1>2, <1>3 DEF CacheTypeOK
<1>5. Rereads(k)
  <2>1. Truly(k, u)'
    BY <1>1, <1>3, <1>4 DEF Truly, accounts
  <2> QED
    BY <1>1, <1>2, <1>3, <1>4, <2>1 DEF Rereads
<1>6. check'[k].at # "granted"
  BY <1>3, <1>4
<1> QED
  BY <1>1, <1>4, <1>5, <1>6, CheckKeeps

\* What a check that goes on with its row has to show.
LEMMA GoesOn ==
    ASSUME AccountsIInv, PermissionsIInv, NEW k \in Checks, Reading(k), UNCHANGED <<accounts, perms>>,
           check'[k].of = check[k].of, check'[k].row = check[k].row, check'[k].age = check[k].age,
           \A u \in Users : u = check[k].of /\ Settled(u) /\ check[k].row.gen = user[u].gen => Truly(k, u)'
    PROVE  Rereads(k)
<1>1. /\ check[k].of \in Users /\ check[k].age <= MaxAwait
      /\ check[k].row.gen \in 1 .. born[check[k].of]
  BY CacheBounds DEF PermissionsIInv, AgesOK
<1> QED
  BY <1>1 DEF Rereads

LEMMA ReadTruly ==
    ASSUME PermissionsIInv, NEW k \in Checks, Reading(k), NEW u \in Users, u = check[k].of, Settled(u),
           check[k].row.gen = user[u].gen
    PROVE  Truly(k, u)
BY DEF Settled, PermissionsIInv, Granted

LEMMA HitKeeps ==
    ASSUME AccountsIInv, PermissionsIInv, NEW k \in Checks, Hit(k) PROVE PermissionsIInv'
<1> DEFINE c == check[k]
           new == [c EXCEPT !.at = "granted", !.age = Cached(k).age]
<1>1. /\ c.at = "resolve" /\ Cached(k).left > 0 /\ check' = [check EXCEPT ![k] = new]
      /\ UNCHANGED <<accounts, perms, cache, crossed>>
  BY DEF Hit, PermissionsIInv, CacheTypeOK
<1>2. Reading(k)
  BY <1>1 DEF Reading
<1>3. c \in Check /\ c.of \in Users /\ c.row.gen \in 1 .. MaxGen
  BY <1>2, CacheBounds
<1>4. Cached(k).age \in Nat /\ Cached(k).left \in Nat /\ Cached(k).age + Cached(k).left <= TTL + MaxAwait
  BY <1>1, <1>3, CacheBounds DEF Cached, PermissionsIInv, AgesOK
<1>5. Cached(k).age <= TTL + MaxAwait
  BY <1>4, CacheAssumption
<1>6. new \in Check /\ new.at = "granted" /\ new.age = Cached(k).age
  BY <1>3, <1>4 DEF Check
<1> HIDE DEF new
<1>7. /\ check'[k] = new /\ \A q \in Checks \ {k} : check'[q] = check[q]
      /\ CacheTypeOK'
  BY <1>1, <1>6 DEF PermissionsIInv, CacheTypeOK
<1>8. ~Reading(k)'
  BY <1>6, <1>7 DEF Reading
<1> QED
  BY <1>1, <1>5, <1>6, <1>7, <1>8, CheckKeeps

LEMMA FillKeeps ==
    ASSUME AccountsIInv, PermissionsIInv, NEW k \in Checks, NEW ps \in SUBSET Perms, Reading(k), Fill(k, ps),
           UNCHANGED <<accounts, perms, crossed>>,
           \A u \in Users : u = check[k].of /\ Settled(u) /\ check[k].row.gen = user[u].gen =>
              ps \subseteq Effective(u)
    PROVE  PermissionsIInv'
<1> DEFINE c == check[k] v == c.of h == c.row.gen
           entry == [perms |-> ps, left |-> TTL, age |-> c.age]
           new == [c EXCEPT !.at = "granted", !.perms = {}]
<1>1. cache' = [cache EXCEPT ![v][h] = entry] /\ check' = [check EXCEPT ![k] = new]
  BY DEF Fill, PermissionsIInv, CacheTypeOK
<1>2. c \in Check /\ v \in Users /\ h \in 1 .. MaxGen /\ c.age \in Nat
  BY CacheBounds
<1>3. c.age <= MaxAwait
  BY DEF PermissionsIInv, AgesOK
<1>4. TTL \in 0 .. TTL /\ c.age + TTL <= TTL + MaxAwait /\ c.age <= TTL + MaxAwait
  BY <1>2, <1>3, CacheAssumption
<1>5. entry \in Entry /\ entry.age + entry.left <= TTL + MaxAwait /\ entry.perms = ps
  BY <1>2, <1>4 DEF Entry
<1>6. new \in Check /\ new.at = "granted" /\ new.age = c.age
  BY <1>2 DEF Check
<1> HIDE DEF entry, new
<1>7. check'[k] = new /\ \A q \in Checks \ {k} : check'[q] = check[q]
  BY <1>1 DEF PermissionsIInv, CacheTypeOK
<1>8. /\ cache' \in [Users -> [1 .. MaxGen -> Entry]]
      /\ \A u \in Users, g \in 1 .. MaxGen :
            cache'[u][g] = IF u = v /\ g = h THEN entry ELSE cache[u][g]
  BY <1>1, <1>2, <1>5 DEF PermissionsIInv, CacheTypeOK
<1>9. CacheTypeOK'
  BY <1>1, <1>6, <1>8 DEF PermissionsIInv, CacheTypeOK
<1>10. ASSUME NEW u \in Users, NEW g \in 1 .. MaxGen
       PROVE  cache'[u][g] = cache[u][g] \/ Supplies(k, u, g)
  <2>1. CASE u = v /\ g = h
    <3>1. cache'[u][g] = entry
      BY <1>8, <2>1
    <3>2. Settled(u) /\ g = user[u].gen => ps \subseteq Effective(u)
      BY <2>1
    <3> QED
      BY <1>5, <2>1, <3>1, <3>2 DEF Supplies
  <2>2. CASE ~(u = v /\ g = h)
    BY <1>8, <2>2
  <2> QED
    BY <2>1, <2>2
<1>11. ~Reading(k)'
  BY <1>6, <1>7 DEF Reading
<1> QED
  BY <1>4, <1>6, <1>7, <1>9, <1>10, <1>11, CheckKeeps

LEMMA MissKeeps ==
    ASSUME AccountsIInv, PermissionsIInv, NEW k \in Checks, Miss(k) PROVE PermissionsIInv'
<1> DEFINE c == check[k]
<1>1. /\ c.at = "resolve" /\ UNCHANGED <<accounts, perms, crossed>>
      /\ \/ c.row.custom = NoRole /\ Fill(k, Preset[c.row.role])
         \/ c.row.custom # NoRole /\ check' = [check EXCEPT ![k].at = "role"] /\ UNCHANGED cache
  BY DEF Miss
<1>2. Reading(k)
  BY <1>1 DEF Reading
<1>3. c \in Check /\ c.row \in Row /\ c.row.role \in RoleNames /\ CacheTypeOK
  BY CacheBounds DEF Row, RoleNames, PermissionsIInv
<1>4. CASE c.row.custom = NoRole /\ Fill(k, Preset[c.row.role])
  <2>1. ASSUME NEW u \in Users, u = c.of, Settled(u), c.row.gen = user[u].gen
        PROVE  Preset[c.row.role] \subseteq Effective(u)
    <3>1. Truly(k, u)
      BY <1>2, <2>1, ReadTruly
    <3>2. c.row.role = user[u].role \/ user[u].role = "admin"
      BY <1>1, <3>1 DEF Truly
    <3> QED
      BY <1>3, <3>2, AdminHasAll DEF Effective
  <2>2. Preset[c.row.role] \in SUBSET Perms
    BY <1>3, AdminHasAll
  <2> QED
    BY <1>1, <1>2, <1>4, <2>1, <2>2, FillKeeps
<1>5. CASE c.row.custom # NoRole /\ check' = [check EXCEPT ![k].at = "role"] /\ UNCHANGED cache
  <2> DEFINE new == [c EXCEPT !.at = "role"]
  <2>1. check' = [check EXCEPT ![k] = new]
    BY <1>5
  <2>2. new \in Check /\ new.at = "role" /\ new.of = c.of /\ new.row = c.row /\ new.age = c.age
    BY <1>3 DEF Check
  <2> HIDE DEF new
  <2>3. /\ check'[k] = new /\ \A q \in Checks \ {k} : check'[q] = check[q]
        /\ CacheTypeOK'
    BY <1>1, <1>3, <1>5, <2>1, <2>2 DEF CacheTypeOK
  <2>4. ASSUME NEW u \in Users, u = c.of, Settled(u), c.row.gen = user[u].gen PROVE Truly(k, u)'
    <3>1. Truly(k, u)
      BY <1>2, <2>4, ReadTruly
    <3> QED
      BY <1>1, <2>2, <2>3, <3>1 DEF Truly, accounts
  <2>5. Rereads(k)
    BY <1>1, <1>2, <2>2, <2>3, <2>4, GoesOn
  <2>6. check'[k].at # "granted"
    BY <2>2, <2>3
  <2> QED
    BY <1>1, <1>5, <2>3, <2>5, <2>6, CheckKeeps
<1> QED
  BY <1>1, <1>4, <1>5

LEMMA ReadRoleKeeps ==
    ASSUME AccountsIInv, PermissionsIInv, NEW k \in Checks, ReadRole(k) PROVE PermissionsIInv'
<1> DEFINE c == check[k]
<1>1. /\ c.at = "role" /\ UNCHANGED <<accounts, perms, cache, crossed>>
      /\ \E extra \in {{}, IF c.row.custom \in defined THEN perms[c.row.custom] ELSE {}} :
            check' = [check EXCEPT ![k].at = "fill", ![k].perms = Preset[c.row.role] \cup extra]
  BY DEF ReadRole
<1>2. PICK extra \in {{}, IF c.row.custom \in defined THEN perms[c.row.custom] ELSE {}} :
         check' = [check EXCEPT ![k].at = "fill", ![k].perms = Preset[c.row.role] \cup extra]
  BY <1>1
<1> DEFINE ps == Preset[c.row.role] \cup extra
           new == [c EXCEPT !.at = "fill", !.perms = ps]
<1>3. Reading(k)
  BY <1>1 DEF Reading
<1>4. /\ c \in Check /\ c.row \in Row /\ c.row.role \in RoleNames /\ CacheTypeOK
      /\ defined \subseteq Roles /\ NoRole \notin Roles
  BY CacheBounds, AccountsAssumption
  DEF Row, RoleNames, PermissionsIInv, AccountsIInv, AccountsTypeOK
<1>5. ps \subseteq Perms
  BY <1>4, AdminHasAll
<1>6. check' = [check EXCEPT ![k] = new]
  BY <1>2, <1>4 DEF CacheTypeOK
<1>7. /\ new \in Check /\ new.at = "fill" /\ new.of = c.of /\ new.row = c.row /\ new.age = c.age
      /\ new.perms = ps
  BY <1>4, <1>5 DEF Check
<1> HIDE DEF new
<1>8. /\ check'[k] = new /\ \A q \in Checks \ {k} : check'[q] = check[q]
      /\ CacheTypeOK'
  BY <1>1, <1>4, <1>6, <1>7 DEF CacheTypeOK
<1>9. ASSUME NEW u \in Users, u = c.of, Settled(u), c.row.gen = user[u].gen PROVE Truly(k, u)'
  <2>1. Truly(k, u)
    BY <1>3, <1>9, ReadTruly
  <2>2. /\ c.row.custom = user[u].custom
        /\ c.row.role = user[u].role \/ user[u].role = "admin"
    BY <1>1, <2>1 DEF Truly
  <2>3. Preset[c.row.role] \subseteq Effective(u)
    BY <1>4, <2>2, AdminHasAll DEF Effective
  <2>4. extra \subseteq Effective(u)
    BY <1>2, <1>4, <2>2 DEF Effective
  <2> QED
    BY <1>1, <1>7, <1>8, <2>3, <2>4 DEF Truly, Effective, accounts
<1>10. Rereads(k)
  BY <1>1, <1>3, <1>7, <1>8, <1>9, GoesOn
<1>11. check'[k].at # "granted"
  BY <1>7, <1>8
<1> QED
  BY <1>1, <1>8, <1>10, <1>11, CheckKeeps

LEMMA FillCacheKeeps ==
    ASSUME AccountsIInv, PermissionsIInv, NEW k \in Checks, FillCache(k) PROVE PermissionsIInv'
<1>1. /\ check[k].at = "fill" /\ Fill(k, check[k].perms)
      /\ UNCHANGED <<accounts, perms, crossed>>
  BY DEF FillCache
<1>2. Reading(k) /\ check[k].perms \in SUBSET Perms
  BY <1>1, CacheBounds DEF Reading
<1>3. ASSUME NEW u \in Users, u = check[k].of, Settled(u), check[k].row.gen = user[u].gen
      PROVE  check[k].perms \subseteq Effective(u)
  BY <1>1, <1>2, <1>3, ReadTruly DEF Truly
<1> QED
  BY <1>1, <1>2, <1>3, FillKeeps

LEMMA ServedKeeps ==
    ASSUME AccountsIInv, PermissionsIInv, NEW k \in Checks, Served(k) PROVE PermissionsIInv'
<1>1. 0 \in Nat
  OBVIOUS
<1>2. NoCheck \in Check /\ NoCheck.at = "idle"
  BY <1>1, Rows, AccountsAssumption DEF NoCheck, Check
<1>3. /\ check'[k] = NoCheck /\ \A q \in Checks \ {k} : check'[q] = check[q]
      /\ CacheTypeOK' /\ UNCHANGED <<accounts, perms, cache, crossed>>
  BY <1>2 DEF Served, PermissionsIInv, CacheTypeOK
<1>4. ~Reading(k)' /\ check'[k].at # "granted"
  BY <1>2, <1>3 DEF Reading
<1> QED
  BY <1>3, <1>4, CheckKeeps

LEMMA TickKeeps ==
    ASSUME AccountsIInv, PermissionsIInv, Tick PROVE PermissionsIInv'
<1>1. /\ UNCHANGED <<user, born, job, raced>>
      /\ \A u : Found(u)' <=> Found(u)
      /\ \A u : Excused(u)' <=> Excused(u)
      /\ \A r \in Reqs : \A u : Holds(r, u)' <=> Holds(r, u)
  BY AccountsSame DEF Tick
<1>2. /\ perms' = perms /\ crossed' = crossed
      /\ \A k \in Checks : Reading(k) => check[k].age < MaxAwait
      /\ \A u \in Users, g \in 1 .. MaxGen :
            cache'[u][g] = IF cache[u][g].left <= 1 THEN NoEntry
                           ELSE [cache[u][g] EXCEPT !.left = @ - 1, !.age = @ + 1]
      /\ \A k \in Checks : check'[k] = IF check[k].at \in {"idle", "granted"} THEN check[k]
                                       ELSE [check[k] EXCEPT !.age = @ + 1]
      /\ cache' = [u \in Users |-> [g \in 1 .. MaxGen |->
                      IF cache[u][g].left <= 1 THEN NoEntry
                      ELSE [cache[u][g] EXCEPT !.left = @ - 1, !.age = @ + 1]]]
      /\ check' = [k \in Checks |-> IF check[k].at \in {"idle", "granted"} THEN check[k]
                                    ELSE [check[k] EXCEPT !.age = @ + 1]]
  BY DEF Tick, Reading
<1>3. 0 \in 0 .. TTL /\ NoEntry \in Entry /\ NoEntry.left = 0
  BY CacheAssumption DEF NoEntry, Entry
<1>4. ASSUME NEW u \in Users, NEW g \in 1 .. MaxGen
      PROVE  /\ cache'[u][g] \in Entry
             /\ cache'[u][g].left > 0 =>
                  /\ cache[u][g].left > 0 /\ cache'[u][g].perms = cache[u][g].perms
                  /\ cache'[u][g].age + cache'[u][g].left = cache[u][g].age + cache[u][g].left
  <2> DEFINE e == cache[u][g]
             older == [e EXCEPT !.left = @ - 1, !.age = @ + 1]
  <2>1. e \in Entry /\ e.left \in Nat /\ e.age \in Nat
    BY CacheBounds
  <2>2. CASE e.left <= 1
    <3>1. cache'[u][g] = NoEntry
      BY <1>2, <2>2
    <3> QED
      BY <1>3, <3>1
  <2>3. CASE ~(e.left <= 1)
    <3>1. e.left - 1 \in 0 .. TTL /\ e.age + 1 \in Nat
      BY <2>1, <2>3, CacheAssumption DEF Entry
    <3>2. older \in Entry /\ older.left = e.left - 1 /\ older.age = e.age + 1 /\ older.perms = e.perms
      BY <2>1, <3>1 DEF Entry
    <3>3. cache'[u][g] = older
      BY <1>2, <2>3
    <3>4. e.left > 0 /\ (e.age + 1) + (e.left - 1) = e.age + e.left
      BY <2>1, <2>3
    <3> HIDE DEF older, e
    <3>5. cache'[u][g].age + cache'[u][g].left = e.age + e.left
      BY <3>2, <3>3, <3>4
    <3> QED
      BY <3>2, <3>3, <3>4, <3>5 DEF e
  <2> QED
    BY <2>2, <2>3
<1>5. ASSUME NEW k \in Checks
      PROVE  /\ check'[k] \in Check /\ check'[k].at = check[k].at /\ check'[k].of = check[k].of
             /\ check'[k].row = check[k].row /\ check'[k].perms = check[k].perms
             /\ check[k].at = "granted" => check'[k].age = check[k].age
             /\ Reading(k) => check'[k].age <= MaxAwait
  <2>1. check[k] \in Check /\ check[k].age \in Nat
    BY CacheBounds
  <2>2. check[k].age + 1 \in Nat /\ (check[k].age < MaxAwait => check[k].age + 1 <= MaxAwait)
    BY <2>1, CacheAssumption
  <2> QED
    BY <1>2, <2>1, <2>2 DEF Check, Reading
<1>6. \A k \in Checks : Reading(k)' <=> Reading(k)
  BY <1>5 DEF Reading
<1>7. CacheTypeOK'
  BY <1>2, <1>4, <1>5 DEF PermissionsIInv, CacheTypeOK
<1>8. AgesOK'
  <2>1. \A u \in Users, g \in 1 .. MaxGen : cache'[u][g].left > 0 =>
           g <= born[u] /\ cache'[u][g].age + cache'[u][g].left <= TTL + MaxAwait
    BY <1>4 DEF PermissionsIInv, AgesOK
  <2>2. \A k \in Checks :
           /\ check'[k].at = "granted" => check'[k].age <= TTL + MaxAwait
           /\ Reading(k) => check'[k].age <= MaxAwait /\ check'[k].row.gen \in 1 .. born[check'[k].of]
    BY <1>5 DEF PermissionsIInv, AgesOK
  <2> QED
    BY <1>1, <1>6, <2>1, <2>2 DEF AgesOK
<1>9. ASSUME NEW u \in Users \ raced PROVE Unknown(u)'
  <2> SUFFICES ASSUME ~Found(u), NEW r \in Reqs, Holds(r, u)
               PROVE  /\ cache'[u][born[u]].left = 0
                      /\ \A k \in Checks : Reading(k) /\ check[k].of = u => check[k].row.gen # born[u]
    BY <1>1, <1>5, <1>6 DEF Unknown
  <2>1. born[u] \in 1 .. MaxGen
    BY HeldBorn
  <2>2. /\ cache[u][born[u]].left = 0
        /\ \A k \in Checks : Reading(k) /\ check[k].of = u => check[k].row.gen # born[u]
    BY DEF PermissionsIInv, Unknown
  <2>3. cache'[u][born[u]] = NoEntry
    <3>1. cache[u][born[u]].left <= 1
      BY <2>2
    <3> QED
      BY <1>2, <2>1, <3>1
  <2> QED
    BY <1>3, <2>2, <2>3
<1>10. ASSUME NEW u \in Users \ raced, u \notin crossed PROVE Granted(u)'
  <2>1. Granted(u) /\ Effective(u)' = Effective(u) /\ (Found(u) => user[u].gen \in 1 .. MaxGen)
    BY <1>1, <1>2, <1>10, CacheBounds DEF PermissionsIInv, Effective
  <2>2. \A k \in Checks : Truly(k, u) => Truly(k, u)'
    BY <1>1, <1>5, <2>1 DEF Truly
  <2>3. Found(u) /\ cache'[u][user[u].gen].left > 0 =>
           cache[u][user[u].gen].left > 0 /\ cache'[u][user[u].gen].perms = cache[u][user[u].gen].perms
    BY <1>4, <2>1
  <2> QED
    BY <1>1, <1>5, <1>6, <2>1, <2>2, <2>3 DEF Granted
<1> QED
  BY <1>1, <1>2, <1>7, <1>8, <1>9, <1>10 DEF PermissionsIInv

\* Steps that leave accounts, cache and checks.
LEMMA ApartKeeps ==
    ASSUME PermissionsIInv, UNCHANGED <<user, born, job, raced, perms, cache, check, crossed>>
    PROVE  PermissionsIInv'
<1>1. \A r \in Reqs : Scope(r)' = Scope(r) /\ \A u : Excuses(r, u)' <=> Excuses(r, u)
  BY DEF Scope, Excuses
<1>2. /\ \A u : (Found(u)' <=> Found(u)) /\ (Excused(u)' <=> Excused(u)) /\ Effective(u)' = Effective(u)
      /\ \A r \in Reqs : \A u : Holds(r, u)' <=> Holds(r, u)
      /\ \A k \in Checks : Reading(k)' <=> Reading(k)
  BY <1>1 DEF Found, Excused, Effective, Holds, Reading
<1>3. CacheTypeOK' /\ AgesOK'
  BY <1>2 DEF PermissionsIInv, CacheTypeOK, AgesOK
<1>4. \A u \in Users : Unknown(u) => Unknown(u)'
  BY <1>2 DEF Unknown
<1>5. ASSUME NEW u \in Users, Granted(u) PROVE Granted(u)'
  <2>1. \A k \in Checks : Truly(k, u)' <=> Truly(k, u)
    BY <1>2 DEF Truly
  <2> QED
    BY <1>2, <1>5, <2>1 DEF Granted
<1> QED
  BY <1>3, <1>4, <1>5 DEF PermissionsIInv

LEMMA PermissionsStep == AccountsIInv /\ PermissionsIInv /\ [Next]_vars => PermissionsIInv'
<1> SUFFICES ASSUME AccountsIInv, PermissionsIInv, [Next]_vars PROVE PermissionsIInv'
  OBVIOUS
<1>1. ASSUME NEW r \in Reqs,
             \/ Begin(r) /\ Unrelated
             \/ Continue(r) /\ Unrelated
             \/ \E c \in Roles, ps \in SUBSET Perms : PutRole(r, c, ps)
      PROVE  PermissionsIInv'
  <2>1. Kept(r)
    BY <1>1, BeginKeeps, ContinueKeeps
  <2>2. Unrelated
    BY <1>1 DEF PutRole, Unrelated
  <2>3. job[r].at \notin {"answer", "clear", "listRole", "clearRole"}
    BY <1>1, StagesOfSteps
  <2> QED
    BY <2>1, <2>2, <2>3, WorkKeepsCache
<1>2. ASSUME NEW r \in Reqs,
             \/ AbandonUncleared(r) \/ AnswerClear(r) \/ DropClear(r)
             \/ SaveRole(r) \/ ListRole(r) \/ ClearRole(r)
      PROVE  PermissionsIInv'
  BY <1>2, AbandonKeepsCache, AnswerClearKeeps, DropClearKeeps, SaveRoleKeepsCache,
     ListRoleKeepsCache, ClearRoleClears
<1>3. ASSUME NEW u \in Users, Authorize(u), Unrelated PROVE PermissionsIInv'
  BY <1>3, ApartKeeps DEF Authorize, Unrelated
<1>4. CASE (ExpireCode /\ Unrelated) \/ UNCHANGED vars
  BY <1>4, ApartKeeps DEF ExpireCode, Unrelated, vars, accounts
<1>5. ASSUME NEW k \in Checks,
             \/ \E u \in Callers : Authenticate(k, u)
             \/ Hit(k) \/ Miss(k) \/ ReadRole(k) \/ FillCache(k) \/ Served(k)
      PROVE  PermissionsIInv'
  BY <1>5, CacheAssumption, AuthenticateKeeps, HitKeeps, MissKeeps, ReadRoleKeeps, FillCacheKeeps,
     ServedKeeps
<1> QED
  BY <1>1, <1>2, <1>3, <1>4, <1>5, TickKeeps DEF Next

\* Changes of accounts and roles, beside the checks that read and cache permissions
\* (middleware/auth.ts): a change of a role shows in the cache once it is answered, but for checks
\* in flight, overlapping writers and failures; and no check grants what is older than an entry's
\* life and one check.
THEOREM ChangesShow == Spec => []PermissionsInv
<1>1. Init => AccountsIInv /\ PermissionsIInv
  BY AccountsInitIInv, PermissionsInitIInv DEF Init
<1>2. AccountsIInv /\ PermissionsIInv /\ [Next]_vars => AccountsIInv' /\ PermissionsIInv'
  BY AccountsStep, PermissionsStep
<1> QED
  BY <1>1, <1>2, PermissionsIInvImplies, PTL DEF Spec

=============================================================================
