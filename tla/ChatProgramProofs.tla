------------------------- MODULE ChatProgramProofs -------------------------
(***************************************************************************)
(* The room registry's invariants, for any sets of room names and clients. *)
(* What one operation does to the registry is stated as lemmas, which the  *)
(* proofs about the server use as well.                                    *)
(***************************************************************************)
EXTENDS ChatProgram, SequenceLemmas

\* A room's clients are a sequence, and without repetitions if all are.
LEMMA RosterType ==
    ASSUME TypeOK, NEW r
    PROVE  /\ GetClientsInRoom(r) \in Seq(Clients)
           /\ RosterUnique => IsInjective(GetClientsInRoom(r))
BY DEF TypeOK, RosterUnique, GetClientsInRoom, RoomExist, IsInjective

\* Giving one room a new roster keeps what holds of every roster.
LEMMA WithRosterKeeps ==
    ASSUME TypeOK, NEW r \in RoomNames, NEW roster \in Seq(Clients),
           m_ChatRooms' = WithRoster(r, roster)
    PROVE  /\ TypeOK'
           /\ RosterUnique /\ IsInjective(roster) => RosterUnique'
<1>1. TypeOK'
  BY DEF TypeOK, WithRoster
<1>2. RosterUnique /\ IsInjective(roster) => RosterUnique'
  BY DEF RosterUnique, WithRoster
<1> QED
  BY <1>1, <1>2

\* Joining looks the client up in the vector it appends to.
LEMMA JoinKeeps ==
    ASSUME TypeOK, NEW r \in RoomNames, NEW c \in Clients, JoinRoom(r, c)
    PROVE  TypeOK' /\ (RosterUnique => RosterUnique')
<1> DEFINE s == GetClientsInRoom(r)
<1>1. CASE JoinStatus(r, c) = "kAllGood"
  <2>1. s \in Seq(Clients) /\ (RosterUnique => IsInjective(s))
    BY RosterType
  <2>2. \A n \in DOMAIN s : s[n] # c
    BY <1>1 DEF JoinStatus, IsMember, Range
  <2>3. m_ChatRooms' = WithRoster(r, Append(s, c))
    BY <1>1 DEF JoinRoom
  <2> HIDE DEF s
  <2>4. Append(s, c) \in Seq(Clients) /\ (RosterUnique => IsInjective(Append(s, c)))
    BY <2>1, <2>2, AppendProperties, AppendKeepsInjective
  <2> QED
    BY <2>3, <2>4, WithRosterKeeps
<1>2. CASE JoinStatus(r, c) # "kAllGood"
  BY <1>2 DEF JoinRoom, TypeOK, RosterUnique
<1> QED
  BY <1>1, <1>2

\* Leaving erases one element and keeps the order of the others.
LEMMA LeaveKeeps ==
    ASSUME TypeOK, NEW r \in RoomNames, NEW c \in Clients, LeaveRoom(r, c)
    PROVE  TypeOK' /\ (RosterUnique => RosterUnique')
<1> DEFINE s == GetClientsInRoom(r)
           t == RemoveFirst(s, c)
<1>1. CASE LeaveStatus(r, c) = "kAllGood"
  <2>1. s \in Seq(Clients) /\ (RosterUnique => IsInjective(s))
    BY RosterType
  <2>2. \E n \in 1 .. Len(s) : s[n] = c
    BY <1>1, <2>1, LenProperties DEF LeaveStatus, IsMember, Range
  <2>3. m_ChatRooms' = WithRoster(r, t)
    BY <1>1 DEF LeaveRoom
  <2>4. t \in Seq(Clients) /\ (RosterUnique => IsInjective(t))
    <3> HIDE DEF s
    <3> QED
      BY <2>1, <2>2, RemoveFirstProperties
  <2> HIDE DEF t
  <2> QED
    BY <2>3, <2>4, WithRosterKeeps
<1>2. CASE LeaveStatus(r, c) # "kAllGood"
  BY <1>2 DEF LeaveRoom, TypeOK, RosterUnique
<1> QED
  BY <1>1, <1>2

\* Whoever is in a room after an operation was in one before, or is the
\* client the operation is about.
LEMMA StepKeepsClients ==
    ASSUME TypeOK, NEW r \in RoomNames, NEW c \in Clients,
           JoinRoom(r, c) \/ LeaveRoom(r, c)
    PROVE  \A q \in DOMAIN m_ChatRooms' : \A n \in DOMAIN m_ChatRooms'[q] :
               \/ m_ChatRooms'[q][n] = c
               \/ \E p \in DOMAIN m_ChatRooms : \E m \in DOMAIN m_ChatRooms[p] :
                     m_ChatRooms'[q][n] = m_ChatRooms[p][m]
<1> DEFINE s == GetClientsInRoom(r)
<1>1. s \in Seq(Clients)
  BY RosterType
<1>2. \A n \in DOMAIN s : r \in DOMAIN m_ChatRooms /\ s[n] = m_ChatRooms[r][n]
                          /\ n \in DOMAIN m_ChatRooms[r]
  BY DEF GetClientsInRoom, RoomExist
<1>3. ASSUME NEW t \in Seq(Clients), m_ChatRooms' = WithRoster(r, t),
             \A n \in DOMAIN t : t[n] = c \/ \E m \in DOMAIN s : t[n] = s[m]
      PROVE  \A q \in DOMAIN m_ChatRooms' : \A n \in DOMAIN m_ChatRooms'[q] :
                 \/ m_ChatRooms'[q][n] = c
                 \/ \E p \in DOMAIN m_ChatRooms : \E m \in DOMAIN m_ChatRooms[p] :
                       m_ChatRooms'[q][n] = m_ChatRooms[p][m]
  <2> HIDE DEF s
  <2>1. /\ DOMAIN m_ChatRooms' = DOMAIN m_ChatRooms \cup {r}
        /\ m_ChatRooms'[r] = t
        /\ \A q \in DOMAIN m_ChatRooms : q # r => m_ChatRooms'[q] = m_ChatRooms[q]
    BY <1>3 DEF WithRoster
  <2> QED
    BY <1>2, <1>3, <2>1
<1>4. CASE UNCHANGED m_ChatRooms
  BY <1>4
<1>5. CASE JoinRoom(r, c) /\ JoinStatus(r, c) = "kAllGood"
  <2>1. m_ChatRooms' = WithRoster(r, Append(s, c))
    BY <1>5 DEF JoinRoom
  <2> HIDE DEF s
  <2>2. /\ Append(s, c) \in Seq(Clients)
        /\ \A n \in DOMAIN Append(s, c) :
              Append(s, c)[n] = c \/ \E m \in DOMAIN s : Append(s, c)[n] = s[m]
    BY <1>1, AppendProperties, LenProperties
  <2> QED
    BY <1>3, <2>1, <2>2
<1>6. CASE LeaveRoom(r, c) /\ LeaveStatus(r, c) = "kAllGood"
  <2>1. m_ChatRooms' = WithRoster(r, RemoveFirst(s, c))
    BY <1>6 DEF LeaveRoom
  <2>2. \E n \in 1 .. Len(s) : s[n] = c
    BY <1>1, <1>6, LenProperties DEF LeaveStatus, IsMember, Range
  <2> HIDE DEF s
  <2>3. /\ RemoveFirst(s, c) \in Seq(Clients)
        /\ Range(RemoveFirst(s, c)) \subseteq Range(s)
    BY <1>1, <2>2, RemoveFirstProperties
  <2>4. \A n \in DOMAIN RemoveFirst(s, c) :
            \E m \in DOMAIN s : RemoveFirst(s, c)[n] = s[m]
    BY <2>3 DEF Range
  <2> QED
    BY <1>3, <2>1, <2>3, <2>4
<1> QED
  BY <1>4, <1>5, <1>6 DEF JoinRoom, LeaveRoom

\* After a join the room exists, also if the client was refused because it
\* is in the room already.
LEMMA JoinedRoomExists ==
    ASSUME TypeOK, NEW r \in RoomNames, NEW c \in Clients, JoinRoom(r, c)
    PROVE  r \in DOMAIN m_ChatRooms'
<1>1. CASE JoinStatus(r, c) = "kAllGood"
  BY <1>1 DEF JoinRoom, WithRoster
<1>2. CASE JoinStatus(r, c) # "kAllGood"
  <2>1. IsMember(r, c)
    BY <1>2 DEF JoinStatus
  <2>2. r \in DOMAIN m_ChatRooms
    BY <2>1 DEF IsMember, GetClientsInRoom, RoomExist, Range
  <2> QED
    BY <1>2, <2>2 DEF JoinRoom
<1> QED
  BY <1>1, <1>2

\* One departure takes a client out of the room, because it was in the
\* room's vector once.
LEMMA LeaverIsGone ==
    ASSUME TypeOK, RosterUnique, NEW r \in RoomNames, NEW c \in Clients,
           LeaveRoom(r, c), LeaveStatus(r, c) = "kAllGood"
    PROVE  /\ r \in DOMAIN m_ChatRooms'
           /\ \A n \in DOMAIN m_ChatRooms'[r] : m_ChatRooms'[r][n] # c
<1> DEFINE s == GetClientsInRoom(r)
<1>1. s \in Seq(Clients) /\ IsInjective(s)
  BY RosterType
<1>2. \E n \in 1 .. Len(s) : s[n] = c
  BY <1>1, LenProperties DEF LeaveStatus, IsMember, Range
<1>3. m_ChatRooms' = WithRoster(r, RemoveFirst(s, c))
  BY DEF LeaveRoom
<1> HIDE DEF s
<1>4. \A n \in DOMAIN RemoveFirst(s, c) : RemoveFirst(s, c)[n] # c
  BY <1>1, <1>2, RemoveFirstProperties
<1>5. r \in DOMAIN m_ChatRooms' /\ m_ChatRooms'[r] = RemoveFirst(s, c)
  BY <1>3 DEF WithRoster
<1> QED
  BY <1>4, <1>5
\* The clients who stay in a room keep their order, in one step.
OrderKept ==
    \A r \in DOMAIN m_ChatRooms : \A a, b \in Clients :
        /\ Before(m_ChatRooms[r], a, b)
        /\ {a, b} \subseteq Range(m_ChatRooms'[r])
        => Before(m_ChatRooms'[r], a, b)

\* A join puts the client behind everybody, a departure closes the gap.
\* That needs RosterUnique: of a client who was in the room twice, the
\* departure would take the first place and keep the second.
LEMMA StepKeepsOrder ==
    ASSUME TypeOK, RosterUnique, NEW r \in RoomNames, NEW c \in Clients,
           JoinRoom(r, c) \/ LeaveRoom(r, c)
    PROVE  OrderKept
<1> DEFINE s == GetClientsInRoom(r)
<1>1. s \in Seq(Clients) /\ IsInjective(s)
  BY RosterType
<1>2. r \in DOMAIN m_ChatRooms => s = m_ChatRooms[r]
  BY DEF GetClientsInRoom, RoomExist
<1> HIDE DEF s
<1>3. ASSUME NEW t, m_ChatRooms' = WithRoster(r, t),
             \A a, b \in Clients :
                Before(s, a, b) /\ {a, b} \subseteq Range(t) => Before(t, a, b)
      PROVE  OrderKept
  <2>1. /\ m_ChatRooms'[r] = t
        /\ \A q \in DOMAIN m_ChatRooms : q # r => m_ChatRooms'[q] = m_ChatRooms[q]
    BY <1>3 DEF WithRoster
  <2> QED
    BY <1>2, <1>3, <2>1 DEF OrderKept
<1>4. CASE UNCHANGED m_ChatRooms
  BY <1>4 DEF OrderKept
<1>5. CASE JoinRoom(r, c) /\ JoinStatus(r, c) = "kAllGood"
  <2>1. m_ChatRooms' = WithRoster(r, Append(s, c))
    BY <1>5 DEF JoinRoom, s
  <2>2. /\ DOMAIN s \subseteq DOMAIN Append(s, c)
        /\ \A n \in DOMAIN s : Append(s, c)[n] = s[n]
    BY <1>1, AppendProperties, LenProperties
  <2>3. \A a, b : Before(s, a, b) => Before(Append(s, c), a, b)
    BY <2>2 DEF Before
  <2> QED
    BY <1>3, <2>1, <2>3
<1>6. CASE LeaveRoom(r, c) /\ LeaveStatus(r, c) = "kAllGood"
  <2>1. m_ChatRooms' = WithRoster(r, RemoveFirst(s, c))
    BY <1>6 DEF LeaveRoom, s
  <2>2. \E n \in 1 .. Len(s) : s[n] = c
    BY <1>1, <1>6, LenProperties DEF LeaveStatus, IsMember, Range, s
  <2>3. ASSUME NEW a, NEW b, Before(s, a, b), {a, b} \subseteq Range(RemoveFirst(s, c))
        PROVE  Before(RemoveFirst(s, c), a, b)
    <3>1. PICK j \in DOMAIN s, k \in DOMAIN s : j < k /\ s[j] = a /\ s[k] = b
      BY <2>3 DEF Before
    <3>2. {s[j], s[k]} \subseteq Range(RemoveFirst(s, c))
      BY <2>3, <3>1
    <3>3. \E m, n \in DOMAIN RemoveFirst(s, c) :
              m < n /\ RemoveFirst(s, c)[m] = s[j] /\ RemoveFirst(s, c)[n] = s[k]
      BY <1>1, <2>2, <3>1, <3>2, RemoveFirstKeepsOrder
    <3> QED
      BY <3>1, <3>3 DEF Before
  <2> QED
    BY <1>3, <2>1, <2>3
<1> QED
  BY <1>4, <1>5, <1>6 DEF JoinRoom, LeaveRoom
-----------------------------------------------------------------------------
\* The registry maps room names to sequences of clients.
THEOREM TypeCorrect == Spec => []TypeOK
<1>1. Init => TypeOK
  BY DEF Init, TypeOK
<1>2. TypeOK /\ [Next]_m_ChatRooms => TypeOK'
  <2>1. ASSUME TypeOK, UNCHANGED m_ChatRooms
        PROVE  TypeOK'
    BY <2>1 DEF TypeOK
  <2> QED
    BY <2>1, JoinKeeps, LeaveKeeps DEF Next
<1> QED
  BY <1>1, <1>2, PTL DEF Spec

\* No client is in a room's vector twice, whatever clients join and leave.
THEOREM RostersUnique == Spec => []RosterUnique
<1>1. Init => RosterUnique
  BY DEF Init, RosterUnique
<1>2. TypeOK /\ RosterUnique /\ [Next]_m_ChatRooms => RosterUnique'
  <2>1. ASSUME RosterUnique, UNCHANGED m_ChatRooms
        PROVE  RosterUnique'
    BY <2>1 DEF RosterUnique
  <2> QED
    BY <2>1, JoinKeeps, LeaveKeeps DEF Next
<1> QED
  BY <1>1, <1>2, TypeCorrect, PTL DEF Spec
\* Whatever clients join and leave, those who stay in a room keep the order
\* in which they joined, so that broadcasts serve them in that order.
THEOREM OrderIsStable == Spec => OrderStable
<1>1. TypeOK /\ RosterUnique /\ [Next]_m_ChatRooms => [OrderKept]_m_ChatRooms
  BY StepKeepsOrder DEF Next
<1> QED
  BY <1>1, TypeCorrect, RostersUnique, PTL DEF Spec, OrderStable, OrderKept

=============================================================================
