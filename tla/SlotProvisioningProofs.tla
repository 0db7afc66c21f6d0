----------------------- MODULE SlotProvisioningProofs -----------------------
(***************************************************************************)
(* Proofs about SlotProvisioning, for any number of calls, tenants, slots   *)
(* and restarts: what a row says of its token, whose sessions are open, and *)
(* which tenants are served.  Five invariants, each proved with the help of *)
(* those before it.                                                         *)
(***************************************************************************)
EXTENDS SlotProvisioning, TLAPS

----------------------------------------------------------------------------
(* The invariants. *)

InFlight == Steps \ Finished
PastInit == InFlight \ {"init"}
Booting == {"booting", "reading", "dead"}
Serving == {"serving", "draining", "down"}

\* Rows: how far a call has come with its row.  No call runs before Bootstrap has
\* ended.
RowOf(c) ==
    /\ pc[c] \in {"idle", "init", "open", "so", "pin", "logout", "row"} => row[c] = "none"
    /\ pc[c] = "meta" => row[c] = "half"
    /\ pc[c] \in {"client", "user", "register", "ok"} => row[c] = "whole"
    /\ phase \in Booting => pc[c] \in Finished
    /\ pc[c] \in InFlight \cup {"ok"} => slot[c] \in FreeNumbers

RowsInv == TypeOK /\ \A c \in Calls : RowOf(c)

\* Tokens: a token is in the free slot it was made in until the restart, and at
\* its own number from then on; whoever is past C_InitToken has touched the token
\* in its slot.
Touched(c, n) ==
    /\ \A k \in TokensAt(n) : c \in token[k].by
    /\ TokensAt(n) = {} => n \in lost

TokenOf(c) ==
    /\ token[c].at \in FreeNumbers \cup {c, NoCall}
    /\ phase \in Booting => token[c].at \notin FreeNumbers
    /\ pc[c] \in {"idle", "init"} => token[c] = NoToken
    /\ token[c].by = {c} => token[c].label = tenant[c]
    /\ pc[c] \in PastInit => Touched(c, slot[c]) /\ token[c].at \in {slot[c], NoCall}
    /\ /\ row[c] # "none" \/ pc[c] \in PastInit \ {"open", "so", "pin"}
       /\ token[c].by = {c} /\ token[c].at # NoCall
       => token[c].pin = c

OnePerSlot == \A j, k \in Calls : token[j].at = token[k].at /\ token[j].at # NoCall => j = k

TokensInv == OnePerSlot /\ \A c \in Calls : TokenOf(c)

\* Sessions: a call in flight has the session of its step, until C_Finalize.
WithSO == {"so", "pin", "logout", "row", "meta", "undo"}
WithUser == {"user", "register"}

SessionOf(c) ==
    /\ Library /\ pc[c] \in WithSO => SO(c) \in open[slot[c]]
    /\ Library /\ pc[c] \in WithUser => User(c) \in open[slot[c]]
    /\ \A n \in Numbers : client[n] = c => pc[c] \in {"ok", "failed", "gone"}
    /\ c \in todo \cup booted => row[c] = "whole" /\ pc[c] \in {"ok", "failed", "gone"}

SessionsInv == SessionsAreOwned /\ \A c \in Calls : SessionOf(c)

\* Clients: one made by a call is on the slot of the call, one made by Bootstrap on
\* the number of a token, its own or one with the label of its tenant.
Labelled(n, c) == n # c => token[n].label = tenant[c] /\ token[n].at \notin FreeNumbers

ClientOf(c) ==
    /\ number[c] \in Calls => Labelled(number[c], c)
    /\ pc[c] \in {"idle", "init", "open", "so", "pin", "logout", "row"} => number[c] = c
    /\ number[c] \in FreeNumbers => temporary[c] \/ ~BornTemporary
    /\ phase = "booting" => c \notin booted
    /\ ~(c \in todo /\ c \in booted)
    /\ c \in booted => token[c].at \notin FreeNumbers
    /\ \A n \in Numbers : client[n] = c =>
          /\ n \in FreeNumbers => slot[c] = n /\ pc[c] = "ok" /\ Touched(c, n)
          /\ n \in Calls => c \in booted /\ Labelled(n, c)

ClientsInv ==
    /\ \A n \in Numbers : phase \in Booting => login[n] # "so"
    /\ \A c \in Calls : ClientOf(c)

\* There is no older token of the tenant, and no row of a call that is over: what
\* Bootstrap found, and what no later call can change.
OnlyOld(c) ==
    \A k \in Calls \ {c} :
        /\ token[k].at \in FreeNumbers \/ token[k].label # tenant[c]
        /\ pc[k] \in {"ok", "failed", "gone"} => row[k] = "none" \/ tenant[k] # tenant[c]

Connected(n, c) == client[n] = c /\ User(c) \in open[n] /\ login[n] = "user"

ServiceOf(c) ==
    /\ phase \in Serving \cup {"reading"} /\ c \in booted /\ Undisturbed(c) /\ OnlyOld(c)
          => Connected(c, c)
    /\ phase \in Serving /\ pc[c] = "register" /\ Undisturbed(c) => login[slot[c]] = "user"
    /\ phase \in Serving /\ pc[c] = "ok" /\ Undisturbed(c) /\ token[c].at = slot[c]
          => Connected(slot[c], c)

ServiceInv == BornTemporary => \A c \in Calls : ServiceOf(c)

IInv == RowsInv /\ TokensInv /\ SessionsInv /\ ClientsInv /\ ServiceInv

----------------------------------------------------------------------------
(* What has which type. *)

TokenType == [at : Numbers \cup {NoCall}, label : Tenants \cup {NoCall},
              pin : Calls \cup {NoCall}, by : SUBSET Calls]

TypeStore ==
    /\ token \in [Calls -> TokenType]
    /\ row \in [Calls -> {"none", "half", "whole"}]
    /\ number \in [Calls -> Numbers] /\ temporary \in [Calls -> BOOLEAN]

TypeCalls ==
    /\ tenant \in [Calls -> Tenants] /\ slot \in [Calls -> Numbers] /\ pc \in [Calls -> Steps]

TypeMain ==
    /\ phase \in {"booting", "reading", "serving", "dead", "draining", "down", "closing",
                  "finalized", "kept"}
    /\ accepts \in BOOLEAN
    /\ todo \subseteq Calls /\ booted \subseteq Calls
    /\ restarts \in 0 .. MaxRestarts

TypeSession ==
    /\ client \in [Numbers -> Calls \cup {NoCall}]
    /\ open \in [Numbers -> SUBSET (Calls \X {"so", "user"})]
    /\ login \in [Numbers -> {"none", "so", "user"}]
    /\ lost \subseteq Numbers

\* TypeOK is its four parts, in every state.
LEMMA TypeParts ==
    /\ TypeOK <=> TypeStore /\ TypeCalls /\ TypeMain /\ TypeSession
    /\ TypeOK' <=> TypeStore' /\ TypeCalls' /\ TypeMain' /\ TypeSession'
BY Zenon DEF TypeOK, TypeStore, TypeCalls, TypeMain, TypeSession, TokenType

\* GetAvailableSlots returns slots without a token, of which one is taken.
LEMMA FreeChosen ==
    FreeSlots # {} => (CHOOSE f \in FreeSlots : TRUE) \in FreeNumbers
BY DEF FreeSlots

\* A row means some slot that has a number.
LEMMA ResolvedNumbers ==
    ASSUME TypeOK, NEW c \in Calls
    PROVE  Resolved(c) \subseteq Numbers
BY DEF TypeOK, Resolved

\* The program starts with everything of its type, and no row but those of the slots it had.
LEMMA RowsInit == Init => RowsInv
<1> SUFFICES ASSUME Init PROVE RowsInv
  OBVIOUS
<1> USE ProvisioningAssumption
<1>1. TypeStore
  <2>1. PICK t \in Tenants : tenant = [c \in Calls |-> t]
    BY DEF Init
  <2>2. token \in [Calls -> TokenType]
    BY <2>1 DEF Init, TokenType, NoToken, Numbers
  <2>3. QED
    BY <2>2 DEF Init, TypeStore, Numbers
<1>2. TypeCalls
  BY DEF Init, TypeCalls, Numbers, Steps
<1>3. TypeMain
  <2>1. 0 \in 0 .. MaxRestarts
    BY SMT
  <2>2. QED
    BY <2>1, Zenon DEF Init, TypeMain
<1>4. TypeSession
  BY DEF Init, TypeSession
<1>5. ASSUME NEW c \in Calls
      PROVE  RowOf(c)
  BY DEF Init, RowOf, Finished, InFlight, Steps
<1>6. QED
  BY <1>1, <1>2, <1>3, <1>4, <1>5, TypeParts, Zenon DEF RowsInv

\* The token and the row keep their types.
LEMMA StoreTyped ==
    ASSUME TypeOK, [Next]_vars
    PROVE  TypeStore'
<1> USE ProvisioningAssumption
<1>1. TypeStore /\ TypeCalls
  BY TypeParts
<1>2. CASE UNCHANGED <<token, store>>
  BY <1>1, <1>2 DEF TypeStore, store
<1>3. ASSUME NEW c \in Calls, InitToken(c)
      PROVE  TypeStore'
  <2> DEFINE n == slot[c]
  <2>1. n \in Numbers /\ tenant[c] \in Tenants
    BY <1>1 DEF TypeCalls
  <2>2. CASE TokensAt(n) = {}
    <3>1. token' = [token EXCEPT ![c] = [at |-> n, label |-> tenant[c], pin |-> NoCall,
                                         by |-> {c}]]
      BY <1>3, <2>2 DEF InitToken
    <3>2. [at |-> n, label |-> tenant[c], pin |-> NoCall, by |-> {c}] \in TokenType
      BY <2>1 DEF TokenType
    <3>3. token' \in [Calls -> TokenType]
      BY <1>1, <3>1, <3>2 DEF TypeStore
    <3>4. QED
      BY <1>1, <1>3, <3>3 DEF InitToken, TypeStore, store
  <2>3. CASE TokensAt(n) # {}
    <3>1. PICK k \in TokensAt(n) :
            token' = [token EXCEPT ![k].label = tenant[c], ![k].pin = NoCall,
                                   ![k].by = @ \cup {c}]
      <4>1. (CHOOSE k \in TokensAt(n) : TRUE) \in TokensAt(n)
        BY <2>3
      <4>2. QED
        BY <1>3, <2>3, <4>1 DEF InitToken
    <3>2. k \in Calls /\ token[k] \in TokenType /\ token \in [Calls -> TokenType]
      BY <1>1 DEF TypeStore, TokensAt
    <3>3. token' = [token EXCEPT ![k] = [token[k] EXCEPT !.label = tenant[c], !.pin = NoCall,
                                                        !.by = @ \cup {c}]]
      BY <3>1, <3>2
    <3>4. [token[k] EXCEPT !.label = tenant[c], !.pin = NoCall, !.by = @ \cup {c}]
             \in TokenType
      BY <2>1, <3>2 DEF TokenType
    <3>5. token' \in [Calls -> TokenType]
      BY <3>2, <3>3, <3>4
    <3>6. QED
      BY <1>1, <1>3, <3>5 DEF InitToken, TypeStore, store
  <2>4. QED
    BY <2>2, <2>3
<1>4. ASSUME NEW c \in Calls, InitPIN(c)
      PROVE  TypeStore'
  <2>1. token' \in [Calls -> TokenType]
    BY <1>1, <1>4 DEF InitPIN, TypeStore, TokenType, TokensAt
  <2>2. QED
    BY <1>1, <1>4, <2>1 DEF InitPIN, TypeStore, store
<1>5. ASSUME NEW c \in Calls, DeleteSlot(c)
      PROVE  TypeStore'
  <2>1. token' \in [Calls -> TokenType]
    BY <1>1, <1>5 DEF DeleteSlot, TypeStore, TokenType
  <2>2. QED
    BY <1>1, <1>5, <2>1 DEF DeleteSlot, TypeStore, store
<1>6. ASSUME Restart
      PROVE  TypeStore'
  <2>1. token' \in [Calls -> TokenType]
    BY <1>1, <1>6 DEF Restart, TypeStore, TokenType, Numbers
  <2>2. QED
    BY <1>1, <1>6, <2>1 DEF Restart, TypeStore, store
<1>7. ASSUME NEW c \in Calls,
             CreateRow(c) \/ CreateRowFails(c) \/ CreateMetadata(c) \/ CreateMetadataFails(c)
             \/ Undo(c)
      PROVE  TypeStore'
  BY <1>1, <1>7 DEF CreateRow, CreateRowFails, CreateMetadata, CreateMetadataFails, Undo,
     DeleteRow, TypeStore, TypeCalls
<1>8. ASSUME NEW c \in Calls, BootRow(c)
      PROVE  TypeStore'
  <2>1. Resolved(c) \subseteq Numbers
    BY ResolvedNumbers
  <2>2. /\ UNCHANGED <<token, row>>
        /\ (\E n \in Numbers : UpdateSlotNumber(c, n)) \/ UNCHANGED <<number, temporary>>
    BY <1>8, <2>1, Zenon DEF BootRow
  <2>3. number' \in [Calls -> Numbers] /\ temporary' \in [Calls -> BOOLEAN]
    <3>1. ASSUME NEW n \in Numbers, UpdateSlotNumber(c, n)
          PROVE  number' \in [Calls -> Numbers] /\ temporary' \in [Calls -> BOOLEAN]
      BY <1>1, <3>1 DEF UpdateSlotNumber, TypeStore
    <3>2. CASE UNCHANGED <<number, temporary>>
      BY <1>1, <3>2 DEF TypeStore
    <3>3. QED
      BY <2>2, <3>1, <3>2
  <2>4. QED
    BY <1>1, <2>2, <2>3 DEF TypeStore
<1>9. ASSUME NEW c \in Calls,
             Refused(c) \/ Start(c) \/ OpenSOSession(c) \/ LoginSO(c) \/ LogoutSO(c)
             \/ OpenUserSession(c) \/ LoginUser(c) \/ Register(c) \/ CallFails(c) \/ SkipRow(c)
      PROVE  UNCHANGED <<token, store>>
  BY <1>9 DEF Refused, Start, OpenSOSession, LoginSO, LogoutSO, OpenUserSession, LoginUser,
     Register, CallFails, SkipRow
<1>10. ASSUME ReadRows \/ ReadRowsFails \/ BootEnds \/ Stop
       PROVE  UNCHANGED <<token, store>>
  BY <1>10 DEF ReadRows, ReadRowsFails, BootEnds, Stop, Signal, Drain, ListenerFails,
     CloseClients, Finalize, FinalizeFails, MainGoes
<1>11. CASE UNCHANGED vars
  BY <1>2, <1>11 DEF vars, store
<1>12. QED
  BY <1>2, <1>3, <1>4, <1>5, <1>6, <1>7, <1>8, <1>9, <1>10, <1>11, Zenon
  DEF Next, Boot, Step

\* The calls' variables keep their types.
LEMMA CallsTyped ==
    ASSUME TypeOK, [Next]_vars
    PROVE  TypeCalls'
<1> USE ProvisioningAssumption
<1>1. TypeCalls
  BY TypeParts
<1>2. ASSUME NEW c \in Calls, Start(c)
      PROVE  TypeCalls'
  <2>1. slot' \in [Calls -> Numbers]
    BY <1>1, <1>2, FreeChosen DEF Start, TypeCalls, Numbers
  <2>2. tenant' \in [Calls -> Tenants] /\ pc' \in [Calls -> Steps]
    BY <1>1, <1>2 DEF Start, Goes, TypeCalls, Steps
  <2>3. QED
    BY <2>1, <2>2 DEF TypeCalls
<1>3. ASSUME NEW c \in Calls, Step(c), ~Start(c)
      PROVE  TypeCalls'
  <2>1. UNCHANGED <<tenant, slot>> /\ \E s \in Steps : pc' = [pc EXCEPT ![c] = s]
    BY <1>3 DEF Step, Refused, InitToken, OpenSOSession, LoginSO, InitPIN, LogoutSO, CreateRow,
       CreateRowFails, CreateMetadata, CreateMetadataFails, Undo, OpenUserSession, LoginUser,
       Register, CallFails, Goes, Fails, Steps
  <2>2. QED
    BY <1>1, <2>1 DEF TypeCalls
<1>4. ASSUME Restart
      PROVE  TypeCalls'
  BY <1>1, <1>4 DEF Restart, TypeCalls, Steps
<1>5. ASSUME Boot \/ Stop \/ (\E c \in Calls : DeleteSlot(c)) \/ UNCHANGED vars
      PROVE  UNCHANGED <<tenant, slot, pc>>
  BY <1>5 DEF Boot, ReadRows, ReadRowsFails, BootEnds, BootRow, SkipRow, Stop, Signal, Drain,
     ListenerFails, CloseClients, Finalize, FinalizeFails, MainGoes, DeleteSlot, vars
<1>6. ASSUME UNCHANGED <<tenant, slot, pc>>
      PROVE  TypeCalls'
  BY <1>1, <1>6 DEF TypeCalls
<1>7. QED
  BY <1>2, <1>3, <1>4, <1>5, <1>6, Zenon DEF Next

\* So do main()'s.
LEMMA MainTyped ==
    ASSUME TypeOK, [Next]_vars
    PROVE  TypeMain'
<1> USE ProvisioningAssumption
<1>1. TypeMain
  BY TypeParts
<1>2. ASSUME NEW c \in Calls, Step(c) \/ DeleteSlot(c)
      PROVE  UNCHANGED <<process, restarts>>
  BY <1>2 DEF Step, Refused, Start, InitToken, OpenSOSession, LoginSO, InitPIN, LogoutSO,
     CreateRow, CreateRowFails, CreateMetadata, CreateMetadataFails, Undo, OpenUserSession,
     LoginUser, Register, CallFails, DeleteSlot
<1>3. ASSUME UNCHANGED <<process, restarts>>
      PROVE  TypeMain'
  BY <1>1, <1>3 DEF TypeMain, process
<1>4. ASSUME Boot
      PROVE  TypeMain'
  BY <1>1, <1>4 DEF Boot, ReadRows, ReadRowsFails, BootEnds, BootRow, SkipRow, TypeMain
<1>5. ASSUME Stop
      PROVE  TypeMain'
  BY <1>1, <1>5 DEF Stop, Signal, Drain, ListenerFails, CloseClients, Finalize, FinalizeFails,
     MainGoes, TypeMain
<1>6. ASSUME Restart
      PROVE  TypeMain'
  <2>1. restarts + 1 \in 0 .. MaxRestarts
    BY <1>1, <1>6 DEF Restart, TypeMain
  <2>2. QED
    BY <1>1, <1>6, <2>1 DEF Restart, TypeMain
<1>7. CASE UNCHANGED vars
  BY <1>3, <1>7 DEF vars, process
<1>8. QED
  BY <1>2, <1>3, <1>4, <1>5, <1>6, <1>7, Zenon DEF Next

\* And the sessions'.
LEMMA SessionTyped ==
    ASSUME TypeOK, [Next]_vars
    PROVE  TypeSession'
<1> USE ProvisioningAssumption
<1>1. TypeSession /\ TypeCalls /\ TypeStore
  BY TypeParts
<1>2. ASSUME NEW c \in Calls,
             OpenSOSession(c) \/ LoginSO(c) \/ LogoutSO(c) \/ OpenUserSession(c) \/ LoginUser(c)
      PROVE  TypeSession'
  BY <1>1, <1>2 DEF OpenSOSession, LoginSO, LogoutSO, OpenUserSession, LoginUser, OpenSession,
     SO, User, TypeSession, TypeCalls
<1>3. ASSUME NEW c \in Calls, CreateRowFails(c) \/ CreateMetadata(c) \/ Undo(c)
      PROVE  TypeSession'
  <2>1. CloseSession(slot[c], SO(c)) /\ UNCHANGED <<client, lost>>
    BY <1>3 DEF CreateRowFails, CreateMetadata, Undo
  <2>2. QED
    BY <1>1, <2>1 DEF CloseSession, TypeSession, TypeCalls
<1>4. ASSUME NEW c \in Calls, Register(c)
      PROVE  TypeSession'
  <2>1. slot[c] \in Numbers /\ lost' = lost /\ RegisterClient(slot[c], c)
    BY <1>1, <1>4 DEF Register, TypeCalls
  <2>2. client' \in [Numbers -> Calls \cup {NoCall}]
    BY <1>1, <2>1 DEF RegisterClient, TypeSession
  <2>3. open' \in [Numbers -> SUBSET (Calls \X {"so", "user"})]
    BY <1>1, <2>1 DEF RegisterClient, TypeSession, session
  <2>4. login' \in [Numbers -> {"none", "so", "user"}]
    BY <1>1, <2>1 DEF RegisterClient, TypeSession, session
  <2>5. QED
    BY <1>1, <2>1, <2>2, <2>3, <2>4 DEF TypeSession
<1>5. ASSUME NEW c \in Calls, CallFails(c)
      PROVE  TypeSession'
  BY <1>1, <1>5 DEF CallFails, TypeSession, TypeCalls
<1>6. ASSUME NEW c \in Calls, DeleteSlot(c)
      PROVE  TypeSession'
  <2>1. token[c].at \in Numbers
    BY <1>1, <1>6 DEF DeleteSlot, TypeStore, TokenType
  <2>2. QED
    BY <1>1, <1>6, <2>1 DEF DeleteSlot, TypeSession, session
<1>7. ASSUME NEW c \in Calls, BootRow(c)
      PROVE  TypeSession'
  <2>1. PICK n \in Resolved(c) :
          IF LogsIn(n, c)
          THEN /\ client' = [client EXCEPT ![n] = c]
               /\ open' = [open EXCEPT ![n] = {User(c)}]
               /\ login' = [login EXCEPT ![n] = IF client[n] = NoCall THEN "user" ELSE "none"]
          ELSE UNCHANGED <<client, session>>
    BY <1>7 DEF BootRow
  <2>2. User(c) \in Calls \X {"so", "user"} /\ lost' = lost
    BY <1>7 DEF User, BootRow
  <2>3. CASE LogsIn(n, c)
    BY <1>1, <2>1, <2>2, <2>3 DEF TypeSession
  <2>4. CASE ~LogsIn(n, c)
    BY <1>1, <2>1, <2>2, <2>4 DEF TypeSession, session
  <2>5. QED
    BY <2>3, <2>4
<1>8. ASSUME CloseClients \/ Finalize \/ Restart
      PROVE  TypeSession'
  BY <1>1, <1>8 DEF CloseClients, Finalize, MainGoes, Restart, TypeSession
<1>9. ASSUME UNCHANGED <<client, session, lost>>
      PROVE  TypeSession'
  BY <1>1, <1>9 DEF TypeSession, session
<1>10. ASSUME NEW c \in Calls,
              Refused(c) \/ Start(c) \/ InitToken(c) \/ InitPIN(c) \/ CreateRow(c)
              \/ CreateMetadataFails(c) \/ SkipRow(c)
       PROVE  UNCHANGED <<client, session, lost>>
  BY <1>10 DEF Refused, Start, InitToken, InitPIN, CreateRow, CreateMetadataFails, SkipRow
<1>11. ASSUME ReadRows \/ ReadRowsFails \/ BootEnds \/ Signal \/ Drain \/ ListenerFails
              \/ FinalizeFails \/ UNCHANGED vars
       PROVE  UNCHANGED <<client, session, lost>>
  BY <1>11 DEF ReadRows, ReadRowsFails, BootEnds, Signal, Drain, ListenerFails, FinalizeFails,
     MainGoes, vars, session
<1>12. QED
  BY <1>2, <1>3, <1>4, <1>5, <1>6, <1>7, <1>8, <1>9, <1>10, <1>11, Zenon
  DEF Next, Boot, Stop, Step

\* Every variable keeps its type.
LEMMA TypeStep ==
    ASSUME TypeOK, [Next]_vars
    PROVE  TypeOK'
BY StoreTyped, CallsTyped, MainTyped, SessionTyped, TypeParts, Zenon

----------------------------------------------------------------------------
(* Rows. *)

\* No row changes but the one of a call that is at a statement about it.
RowGoes(d) ==
    \/ /\ row'[d] = row[d]
       /\ <<pc[d], pc'[d]>> \notin {<<"row", "meta">>, <<"meta", "client">>}
    \/ pc[d] = "row" /\ pc'[d] = "meta" /\ row'[d] = "half"
    \/ pc[d] = "row" /\ pc'[d] = "failed" /\ row'[d] \in {row[d], "half"}
    \/ pc[d] = "meta" /\ pc'[d] \in {"client", "undo"} /\ row'[d] = "whole"
    \/ pc[d] = "undo" /\ pc'[d] = "failed" /\ row'[d] = "none"

\* Every step does one of these to a row.
LEMMA RowsChange ==
    ASSUME TypeOK, [Next]_vars, NEW d \in Calls
    PROVE  RowGoes(d)
<1>1. TypeStore /\ TypeCalls
  BY TypeParts
<1>2. ASSUME NEW c \in Calls, CreateRow(c) \/ CreateRowFails(c)
      PROVE  RowGoes(d)
  BY <1>1, <1>2 DEF CreateRow, CreateRowFails, Goes, TypeStore, TypeCalls, RowGoes
<1>3. ASSUME NEW c \in Calls, CreateMetadata(c) \/ CreateMetadataFails(c)
      PROVE  RowGoes(d)
  BY <1>1, <1>3 DEF CreateMetadata, CreateMetadataFails, Goes, TypeStore, TypeCalls, RowGoes
<1>4. ASSUME NEW c \in Calls, Undo(c)
      PROVE  RowGoes(d)
  BY <1>1, <1>4 DEF Undo, DeleteRow, Fails, TypeStore, TypeCalls, RowGoes
<1>5. ASSUME NEW c \in Calls,
             Refused(c) \/ Start(c) \/ InitToken(c) \/ OpenSOSession(c) \/ LoginSO(c)
             \/ InitPIN(c) \/ LogoutSO(c) \/ OpenUserSession(c) \/ LoginUser(c) \/ Register(c)
             \/ CallFails(c)
      PROVE  RowGoes(d)
  <2>1. row' = row
    BY <1>5 DEF Refused, Start, InitToken, OpenSOSession, LoginSO, InitPIN, LogoutSO,
       OpenUserSession, LoginUser, Register, CallFails, store
  <2>2. \E s \in Steps : /\ pc' = [pc EXCEPT ![c] = s]
                         /\ <<pc[c], s>> \notin {<<"row", "meta">>, <<"meta", "client">>}
    BY <1>5 DEF Refused, Start, InitToken, OpenSOSession, LoginSO, InitPIN, LogoutSO,
       OpenUserSession, LoginUser, Register, CallFails, Goes, Fails, Steps
  <2>3. QED
    BY <1>1, <2>1, <2>2 DEF RowGoes, TypeCalls
<1>6. ASSUME Boot \/ Stop \/ (\E c \in Calls : DeleteSlot(c)) \/ UNCHANGED vars
      PROVE  RowGoes(d)
  <2>1. row' = row /\ pc' = pc
    BY <1>6 DEF Boot, ReadRows, ReadRowsFails, BootEnds, BootRow, SkipRow, Stop, Signal, Drain,
       ListenerFails, CloseClients, Finalize, FinalizeFails, MainGoes, DeleteSlot, store, vars
  <2>2. QED
    BY <2>1 DEF RowGoes
<1>7. ASSUME Restart
      PROVE  RowGoes(d)
  BY <1>1, <1>7 DEF Restart, RowGoes, TypeCalls, Finished, store
<1>8. QED
  BY <1>2, <1>3, <1>4, <1>5, <1>6, <1>7, Zenon DEF Next, Step

\* No call goes anywhere but one step on, or to its end.
Onward(d) ==
    \/ pc'[d] = pc[d] /\ slot'[d] = slot[d] /\ tenant'[d] = tenant[d]
    \/ pc[d] = "idle" /\ pc'[d] = "init" /\ slot'[d] \in FreeNumbers /\ tenant'[d] \in Tenants
    \/ /\ slot'[d] = slot[d] /\ tenant'[d] = tenant[d]
       /\ <<pc[d], pc'[d]>> \in
            {<<"init", "open">>, <<"open", "so">>, <<"so", "pin">>, <<"pin", "logout">>,
             <<"logout", "row">>, <<"row", "meta">>, <<"meta", "client">>, <<"meta", "undo">>,
             <<"client", "user">>, <<"user", "register">>, <<"register", "ok">>}
    \/ /\ slot'[d] = slot[d] /\ tenant'[d] = tenant[d]
       /\ pc[d] \in (InFlight \ {"meta", "logout", "register"}) \cup {"idle"}
       /\ pc'[d] = "failed"
    \/ /\ slot'[d] = slot[d] /\ tenant'[d] = tenant[d]
       /\ pc[d] \in InFlight /\ pc'[d] = "gone" /\ phase' = "booting"

\* Every step does one of these to a call; a boot moves none.
LEMMA CallsGoOn ==
    ASSUME TypeOK, [Next]_vars, NEW d \in Calls
    PROVE  /\ Onward(d)
           /\ phase' \in Booting => pc'[d] = pc[d] \/ Restart
<1>1. TypeCalls
  BY TypeParts
<1>2. ASSUME NEW c \in Calls, Step(c)
      PROVE  phase' = phase /\ phase \notin Booting
  BY <1>2 DEF Step, Refused, Start, InitToken, OpenSOSession, LoginSO, InitPIN, LogoutSO,
     CreateRow, CreateRowFails, CreateMetadata, CreateMetadataFails, Undo, OpenUserSession,
     LoginUser, Register, CallFails, Goes, Alive, Booting, process
<1>3. ASSUME NEW c \in Calls, Start(c)
      PROVE  Onward(d)
  <2>1. pc' = [pc EXCEPT ![c] = "init"] /\ pc[c] = "idle"
    BY <1>3 DEF Start, Goes
  <2>2. PICK f \in FreeNumbers : slot' = [slot EXCEPT ![c] = f]
    BY <1>3, FreeChosen DEF Start
  <2>3. PICK t \in Tenants : tenant' = [tenant EXCEPT ![c] = t]
    BY <1>3 DEF Start
  <2>4. QED
    BY <1>1, <2>1, <2>2, <2>3 DEF Onward, TypeCalls
<1>4. ASSUME NEW c \in Calls, Step(c), ~Start(c)
      PROVE  Onward(d)
  <2>1. UNCHANGED <<slot, tenant>>
    BY <1>4 DEF Step, Refused, InitToken, OpenSOSession, LoginSO, InitPIN, LogoutSO, CreateRow,
       CreateRowFails, CreateMetadata, CreateMetadataFails, Undo, OpenUserSession, LoginUser,
       Register, CallFails
  <2>2. \E s \in Steps :
          /\ pc' = [pc EXCEPT ![c] = s]
          /\ \/ <<pc[c], s>> \in
                  {<<"init", "open">>, <<"open", "so">>, <<"so", "pin">>, <<"pin", "logout">>,
                   <<"logout", "row">>, <<"row", "meta">>, <<"meta", "client">>,
                   <<"meta", "undo">>, <<"client", "user">>, <<"user", "register">>,
                   <<"register", "ok">>}
             \/ /\ pc[c] \in (InFlight \ {"meta", "logout", "register"}) \cup {"idle"}
                /\ s = "failed"
    BY <1>4 DEF Step, Refused, InitToken, OpenSOSession, LoginSO, InitPIN, LogoutSO, CreateRow,
       CreateRowFails, CreateMetadata, CreateMetadataFails, Undo, OpenUserSession, LoginUser,
       Register, CallFails, Goes, Fails, Steps, InFlight, Finished
  <2>3. QED
    BY <1>1, <2>1, <2>2 DEF Onward, TypeCalls
<1>5. ASSUME Restart
      PROVE  Onward(d)
  BY <1>1, <1>5 DEF Restart, Onward, TypeCalls, InFlight
<1>6. ASSUME Boot \/ Stop \/ (\E c \in Calls : DeleteSlot(c)) \/ UNCHANGED vars
      PROVE  UNCHANGED <<tenant, slot, pc>>
  BY <1>6 DEF Boot, ReadRows, ReadRowsFails, BootEnds, BootRow, SkipRow, Stop, Signal, Drain,
     ListenerFails, CloseClients, Finalize, FinalizeFails, MainGoes, DeleteSlot, vars
<1>7. QED
  BY <1>2, <1>3, <1>4, <1>5, <1>6, Zenon DEF Next, Onward

\* main() boots once, serves, and ends; only a restart takes it back.
LEMMA MainGoesOn ==
    ASSUME TypeOK, [Next]_vars, ~Restart
    PROVE  /\ phase' \in Booting => phase \in Booting
           /\ phase' = "booting" => phase = "booting"
           /\ phase' = "reading" => phase \in {"booting", "reading"}
           /\ phase' \in Serving => phase \in Serving \cup {"reading"}
           /\ Library' => Library
<1>1. ASSUME NEW c \in Calls, Step(c) \/ DeleteSlot(c)
      PROVE  phase' = phase
  BY <1>1 DEF Step, Refused, Start, InitToken, OpenSOSession, LoginSO, InitPIN, LogoutSO,
     CreateRow, CreateRowFails, CreateMetadata, CreateMetadataFails, Undo, OpenUserSession,
     LoginUser, Register, CallFails, DeleteSlot, process
<1>2. ASSUME ReadRows \/ ReadRowsFails
      PROVE  phase = "booting" /\ phase' \in {"reading", "dead"}
  BY <1>2 DEF ReadRows, ReadRowsFails
<1>3. ASSUME BootEnds
      PROVE  phase = "reading" /\ phase' \in {"dead", "serving"}
  BY <1>3 DEF BootEnds
<1>4. ASSUME NEW c \in Calls, BootRow(c) \/ SkipRow(c)
      PROVE  phase' = phase
  BY <1>4 DEF BootRow, SkipRow
<1>5. ASSUME Stop
      PROVE  /\ phase \in {"serving", "draining", "down", "closing"}
             /\ phase' \in {"draining", "down", "closing", "finalized", "kept"}
             /\ phase' \in Serving => phase \in Serving
             /\ phase' # phase
  BY <1>5 DEF Stop, Signal, Drain, ListenerFails, CloseClients, Finalize, FinalizeFails,
     MainGoes, Serving
<1>6. CASE UNCHANGED vars
  BY <1>6 DEF vars, Library
<1>7. QED
  BY <1>1, <1>2, <1>3, <1>4, <1>5, <1>6 DEF Next, Boot, Booting, Serving, Library

\* What a row says of its call stays true.
LEMMA RowsStep ==
    ASSUME RowsInv, [Next]_vars
    PROVE  RowsInv'
<1>1. TypeOK /\ TypeOK'
  BY TypeStep DEF RowsInv
<1>2. ASSUME NEW c \in Calls
      PROVE  RowOf(c)'
  <2>1. RowOf(c) /\ pc[c] \in Steps /\ pc'[c] \in Steps
    BY <1>1, TypeParts DEF RowsInv, TypeCalls
  <2>2. Onward(c) /\ (phase' \in Booting => pc'[c] = pc[c] \/ Restart)
    BY <1>1, CallsGoOn
  <2>3. RowGoes(c)
    BY <1>1, RowsChange
  <2>4. Restart => pc'[c] \in Finished
    BY <1>1, TypeParts DEF Restart, TypeCalls, Finished
  <2>5. phase' \in Booting => Restart \/ phase \in Booting
    BY <1>1, MainGoesOn
  <2>6. QED
    BY <2>1, <2>2, <2>3, <2>4, <2>5 DEF RowOf, RowGoes, Onward, InFlight, Finished, Steps, Booting
<1>3. QED
  BY <1>1, <1>2, Zenon DEF RowsInv

\* Rows agree with their calls at all times.
LEMMA RowsAlways == Spec => []RowsInv
<1>1. RowsInv /\ [Next]_vars => RowsInv'
  BY RowsStep
<1>2. QED
  BY RowsInit, <1>1, PTL DEF Spec

\* Every variable keeps its type.
THEOREM TypeCorrect == Spec => []TypeOK
<1>1. RowsInv => TypeOK
  BY DEF RowsInv
<1>2. QED
  BY RowsAlways, <1>1, PTL

\* A slot answered for with success keeps its whole row whatever fails or crashes later, and
\* no row turns back from whole to half: the cleanup handlers of InitializeSlot never reach
\* the row of a call that is over, nor does a late CreateSlot.
THEOREM AnsweredRowsAlwaysStay == Spec => AnsweredRowsStay
<1>1. ASSUME RowsInv, [Next]_vars
      PROVE  [\A c \in Calls : /\ pc[c] = "ok" => row'[c] = "whole"
                               /\ row[c] = "whole" => row'[c] # "half"]_vars
  <2>1. ASSUME NEW c \in Calls
        PROVE  /\ pc[c] = "ok" => row'[c] = "whole"
               /\ row[c] = "whole" => row'[c] # "half"
    <3>1. RowOf(c) /\ RowGoes(c)
      BY <1>1, RowsChange DEF RowsInv
    <3>2. QED
      BY <3>1 DEF RowOf, RowGoes
  <2>2. QED
    BY <2>1
<1>2. QED
  BY RowsAlways, <1>1, PTL DEF Spec, AnsweredRowsStay

----------------------------------------------------------------------------
(* Tokens. *)

\* The steps that leave the tokens alone.
TokensKept ==
    /\ token' = token /\ lost' = lost
    /\ phase' \in Booting => phase \in Booting
    /\ \A d \in Calls :
          /\ pc'[d] \in {"idle", "init"} => pc[d] \in {"idle", "init"}
          /\ tenant'[d] = tenant[d] \/ pc[d] = "idle"
          /\ pc'[d] \in PastInit => pc[d] \in PastInit /\ slot'[d] = slot[d]
          /\ row'[d] # "none" \/ pc'[d] \in PastInit \ {"open", "so", "pin"}
                => row[d] # "none" \/ pc[d] \in PastInit \ {"open", "so", "pin"}

\* What is not a number, and what is no token.
LEMMA NoTokenFacts ==
    /\ NoToken.at = NoCall /\ NoToken.by = {}
    /\ NoCall \notin Numbers /\ NoCall \notin Calls /\ NoCall \notin FreeNumbers
    /\ \A c \in Calls : c \notin FreeNumbers /\ c \in Numbers
BY ProvisioningAssumption DEF NoToken, Numbers

\* At the start the tokens are those of the slots there were.
LEMMA TokensInit == Init => TokensInv
<1> SUFFICES ASSUME Init PROVE TokensInv
  OBVIOUS
<1>1. ASSUME NEW c \in Calls
      PROVE  /\ c \in Seeds => /\ token[c].at = c /\ token[c].label = tenant[c]
                               /\ token[c].pin = c /\ token[c].by = {c} /\ pc[c] = "gone"
             /\ c \notin Seeds => token[c] = NoToken /\ pc[c] = "idle" /\ row[c] = "none"
  BY DEF Init
<1>2. OnePerSlot
  BY <1>1, NoTokenFacts DEF OnePerSlot
<1>3. ASSUME NEW c \in Calls
      PROVE  TokenOf(c)
  BY <1>1, NoTokenFacts DEF TokenOf, PastInit, InFlight, Finished
<1>4. QED
  BY <1>2, <1>3 DEF TokensInv

\* They keep what the tokens say.
LEMMA TokensStay ==
    ASSUME TokensInv, TokensKept
    PROVE  TokensInv'
<1>1. OnePerSlot'
  BY DEF TokensInv, TokensKept, OnePerSlot
<1>2. ASSUME NEW c \in Calls
      PROVE  TokenOf(c)'
  <2>1. \A n : TokensAt(n)' = TokensAt(n)
    BY DEF TokensKept, TokensAt
  <2>2. \A n : Touched(c, n) => Touched(c, n)'
    BY <2>1 DEF TokensKept, Touched
  <2>3. TokenOf(c) /\ token'[c] = token[c]
    BY DEF TokensInv, TokensKept
  <2>4. token[c].by = {c} => pc[c] # "idle"
    BY <2>3, NoTokenFacts DEF TokenOf
  <2>5. pc'[c] \in PastInit => Touched(c, slot[c])' /\ token'[c].at \in {slot'[c], NoCall}
    BY <2>2, <2>3 DEF TokenOf, TokensKept, Touched
  <2>6. QED
    BY <2>3, <2>4, <2>5 DEF TokenOf, TokensKept
<1>3. QED
  BY <1>1, <1>2 DEF TokensInv

\* A call moves by its own steps, or is cut off by a restart.
LEMMA OwnSteps ==
    ASSUME TypeOK, [Next]_vars, NEW d \in Calls, pc'[d] # pc[d]
    PROVE  Step(d) \/ Restart
<1>1. pc \in [Calls -> Steps]
  BY TypeParts DEF TypeCalls
<1>2. ASSUME NEW c \in Calls, Step(c), c # d
      PROVE  FALSE
  <2>1. \E s \in Steps : pc' = [pc EXCEPT ![c] = s]
    BY <1>2 DEF Step, Refused, Start, InitToken, OpenSOSession, LoginSO, InitPIN, LogoutSO,
       CreateRow, CreateRowFails, CreateMetadata, CreateMetadataFails, Undo, OpenUserSession,
       LoginUser, Register, CallFails, Goes, Fails, Steps
  <2>2. QED
    BY <1>1, <1>2, <2>1
<1>3. ASSUME Boot \/ Stop \/ (\E c \in Calls : DeleteSlot(c)) \/ UNCHANGED vars
      PROVE  pc' = pc
  BY <1>3 DEF Boot, ReadRows, ReadRowsFails, BootEnds, BootRow, SkipRow, Stop, Signal, Drain,
     ListenerFails, CloseClients, Finalize, FinalizeFails, MainGoes, DeleteSlot, vars
<1>4. QED
  BY <1>2, <1>3, Zenon DEF Next

\* All steps but four are such.
LEMMA MostKeepTokens ==
    ASSUME RowsInv, [Next]_vars, ~Restart,
           \A c \in Calls : ~InitToken(c) /\ ~InitPIN(c) /\ ~DeleteSlot(c)
    PROVE  TokensKept
<1>1. token' = token /\ lost' = lost
  <2>1. ASSUME NEW c \in Calls, Step(c), ~InitToken(c), ~InitPIN(c)
        PROVE  token' = token /\ lost' = lost
    BY <2>1 DEF Step, Refused, Start, OpenSOSession, LoginSO, LogoutSO, CreateRow,
       CreateRowFails, CreateMetadata, CreateMetadataFails, Undo, OpenUserSession, LoginUser,
       Register, CallFails
  <2>2. ASSUME Boot \/ Stop \/ UNCHANGED vars
        PROVE  token' = token /\ lost' = lost
    BY <2>2 DEF Boot, ReadRows, ReadRowsFails, BootEnds, BootRow, SkipRow, Stop, Signal, Drain,
       ListenerFails, CloseClients, Finalize, FinalizeFails, MainGoes, vars
  <2>3. QED
    BY <2>1, <2>2, Zenon DEF Next
<1>2. phase' \in Booting => phase \in Booting
  BY MainGoesOn DEF RowsInv
<1>3. ASSUME NEW d \in Calls
      PROVE  /\ pc'[d] \in {"idle", "init"} => pc[d] \in {"idle", "init"}
             /\ tenant'[d] = tenant[d] \/ pc[d] = "idle"
             /\ pc'[d] \in PastInit => pc[d] \in PastInit /\ slot'[d] = slot[d]
             /\ row'[d] # "none" \/ pc'[d] \in PastInit \ {"open", "so", "pin"}
                   => row[d] # "none" \/ pc[d] \in PastInit \ {"open", "so", "pin"}
  <2>1. ASSUME <<pc[d], pc'[d]>> \in {<<"init", "open">>, <<"pin", "logout">>}
        PROVE  FALSE
    <3>1. Step(d) /\ ~InitToken(d) /\ ~InitPIN(d)
      BY <2>1, OwnSteps DEF RowsInv
    <3>2. pc \in [Calls -> Steps]
      BY TypeParts DEF RowsInv, TypeCalls
    <3>3. QED
      BY <2>1, <3>1, <3>2 DEF Step, Refused, Start, OpenSOSession, LoginSO, LogoutSO,
         CreateRow, CreateRowFails, CreateMetadata, CreateMetadataFails, Undo, OpenUserSession,
         LoginUser, Register, CallFails, Goes, Fails
  <2>2. Onward(d) /\ RowGoes(d) /\ RowOf(d) /\ pc[d] \in Steps
    BY CallsGoOn, RowsChange, TypeParts DEF RowsInv, TypeCalls
  <2>3. phase' # "booting" \/ phase \in Booting
    BY <1>2 DEF Booting
  <2>4. QED
    BY <2>1, <2>2, <2>3 DEF Onward, RowGoes, PastInit, InFlight, Finished, Steps
<1>4. QED
  BY <1>1, <1>2, <1>3 DEF TokensKept

\* What the other calls of a step of c keep.
LEMMA OthersStand ==
    ASSUME TypeOK, NEW c \in Calls, NEW s \in Steps, pc' = [pc EXCEPT ![c] = s],
           UNCHANGED <<store, tenant, slot, phase>>
    PROVE  /\ pc'[c] = s
           /\ \A d \in Calls : d # c => pc'[d] = pc[d]
           /\ \A d \in Calls : row'[d] = row[d] /\ tenant'[d] = tenant[d] /\ slot'[d] = slot[d]
           /\ phase' = phase
BY TypeParts DEF TypeCalls, store

\* C_InitToken on a slot without a token makes one there.
LEMMA MakesToken ==
    ASSUME RowsInv, TokensInv, NEW c \in Calls, InitToken(c), TokensAt(slot[c]) = {}
    PROVE  TokensInv'
<1> DEFINE n == slot[c]
<1>1. token \in [Calls -> TokenType] /\ pc \in [Calls -> Steps] /\ TypeOK
  BY TypeParts DEF RowsInv, TypeStore, TypeCalls
<1>2. /\ pc[c] = "init" /\ pc' = [pc EXCEPT ![c] = "open"]
      /\ n \notin lost /\ lost' = lost
      /\ token' = [token EXCEPT ![c] = [at |-> n, label |-> tenant[c], pin |-> NoCall,
                                        by |-> {c}]]
      /\ UNCHANGED <<store, tenant, slot, phase>>
  BY DEF InitToken, Goes, process
<1>3. /\ token'[c].at = n /\ token'[c].label = tenant[c] /\ token'[c].by = {c}
      /\ \A k \in Calls : k # c => token'[k] = token[k]
  BY <1>1, <1>2
<1>4. /\ pc'[c] = "open"
      /\ \A d \in Calls : d # c => pc'[d] = pc[d]
      /\ \A d \in Calls : row'[d] = row[d] /\ tenant'[d] = tenant[d] /\ slot'[d] = slot[d]
      /\ phase' = phase
  BY <1>1, <1>2, OthersStand DEF Steps
<1>5. n \in FreeNumbers /\ row[c] = "none" /\ phase \notin Booting /\ token[c] = NoToken
  BY <1>2 DEF RowsInv, RowOf, InFlight, Finished, Steps, TokensInv, TokenOf
<1>6. \A k \in Calls : token[k].at # n
  BY DEF TokensAt
<1>7. OnePerSlot'
  BY <1>3, <1>6, NoTokenFacts DEF OnePerSlot, TokensInv
<1>8. ASSUME NEW d \in Calls, d # c
      PROVE  TokenOf(d)'
  <2>1. TokenOf(d)
    BY DEF TokensInv
  <2>2. ASSUME pc[d] \in PastInit
        PROVE  Touched(d, slot[d])'
    <3>1. Touched(d, slot[d]) /\ slot[d] # n
      BY <1>2, <2>1, <2>2 DEF TokenOf, Touched
    <3>2. TokensAt(slot[d])' = TokensAt(slot[d]) /\ c \notin TokensAt(slot[d])
      <4>1. token[c].at # slot[d]
        BY <1>1, <1>5, NoTokenFacts, TypeParts DEF TypeCalls
      <4>2. QED
        BY <1>3, <1>4, <3>1, <4>1 DEF TokensAt
    <3>3. QED
      BY <1>2, <1>3, <3>1, <3>2 DEF Touched, TokensAt
  <2>3. QED
    BY <1>3, <1>4, <1>8, <2>1, <2>2 DEF TokenOf
<1>9. TokenOf(c)'
  <2>1. TokensAt(slot[c])' = {c}
    BY <1>3, <1>4, <1>6 DEF TokensAt
  <2>2. Touched(c, slot[c])'
    BY <1>3, <2>1 DEF Touched
  <2>3. QED
    BY <1>3, <1>4, <1>5, <2>2 DEF TokenOf, PastInit, InFlight, Finished
<1>10. QED
  BY <1>7, <1>8, <1>9 DEF TokensInv

\* On a slot that has a token by then, it wipes that one, which is not the caller's.
LEMMA WipesToken ==
    ASSUME RowsInv, TokensInv, NEW c \in Calls, InitToken(c), TokensAt(slot[c]) # {}
    PROVE  TokensInv'
<1> DEFINE n == slot[c]
<1>1. token \in [Calls -> TokenType] /\ pc \in [Calls -> Steps] /\ TypeOK
  BY TypeParts DEF RowsInv, TypeStore, TypeCalls
<1>2. /\ pc[c] = "init" /\ pc' = [pc EXCEPT ![c] = "open"] /\ lost' = lost
      /\ UNCHANGED <<store, tenant, slot, phase>>
  BY DEF InitToken, Goes, process
<1>3. PICK k \in TokensAt(n) :
        token' = [token EXCEPT ![k].label = tenant[c], ![k].pin = NoCall,
                               ![k].by = @ \cup {c}]
  <2>1. (CHOOSE k \in TokensAt(n) : TRUE) \in TokensAt(n)
    OBVIOUS
  <2>2. QED
    BY <2>1 DEF InitToken
<1>4. /\ pc'[c] = "open"
      /\ \A d \in Calls : d # c => pc'[d] = pc[d]
      /\ \A d \in Calls : row'[d] = row[d] /\ tenant'[d] = tenant[d] /\ slot'[d] = slot[d]
      /\ phase' = phase
  BY <1>1, <1>2, OthersStand DEF Steps
<1>5. n \in FreeNumbers /\ row[c] = "none" /\ token[c] = NoToken
  BY <1>2 DEF RowsInv, RowOf, InFlight, Finished, Steps, TokensInv, TokenOf
<1>6. k \in Calls /\ k # c /\ token[k].at = n
  BY <1>5, NoTokenFacts DEF TokensAt
<1>7. /\ token'[k].at = n /\ token'[k].by = token[k].by \cup {c}
      /\ \A j \in Calls : j # k => token'[j] = token[j]
  BY <1>1, <1>3, <1>6 DEF TokenType
<1>8. \A j \in Calls : token'[j].at = token[j].at /\ token[j].by \subseteq token'[j].by
  BY <1>6, <1>7
<1>9. \A m : TokensAt(m)' = TokensAt(m)
  BY <1>8 DEF TokensAt
<1>10. OnePerSlot'
  BY <1>8 DEF OnePerSlot, TokensInv
<1>11. ASSUME NEW d \in Calls, d # c
       PROVE  TokenOf(d)'
  <2>1. TokenOf(d)
    BY DEF TokensInv
  <2>2. pc[d] \in PastInit => Touched(d, slot[d])'
    BY <1>2, <1>4, <1>8, <1>9, <2>1 DEF TokenOf, Touched, TokensAt
  <2>3. CASE d # k
    BY <1>4, <1>7, <1>11, <2>1, <2>2, <2>3 DEF TokenOf
  <2>4. CASE d = k
    <3>1. token'[d].by # {d} /\ token[d].at # NoCall
      BY <1>5, <1>6, <1>7, <2>4, NoTokenFacts
    <3>2. pc[d] \notin {"idle", "init"}
      BY <2>1, <3>1, NoTokenFacts DEF TokenOf
    <3>3. QED
      BY <1>4, <1>8, <1>11, <2>1, <2>2, <3>1, <3>2 DEF TokenOf
  <2>5. QED
    BY <2>3, <2>4
<1>12. TokenOf(c)'
  <2>1. TokenOf(c)
    BY DEF TokensInv
  <2>2. \A j \in TokensAt(n) : j = k
    BY <1>5, <1>6, NoTokenFacts DEF TokensInv, OnePerSlot, TokensAt
  <2>3. Touched(c, slot[c])'
    BY <1>3, <1>4, <1>7, <1>9, <2>2 DEF Touched
  <2>4. token'[c] = NoToken
    BY <1>5, <1>6, <1>7
  <2>5. QED
    BY <1>4, <1>5, <2>1, <2>3, <2>4, NoTokenFacts DEF TokenOf, PastInit, InFlight, Finished
<1>13. QED
  BY <1>10, <1>11, <1>12 DEF TokensInv

\* C_InitPIN gives the token in the slot the PIN of the call, which is one of those that
\* initialised it.
LEMMA SetsPIN ==
    ASSUME RowsInv, TokensInv, NEW c \in Calls, InitPIN(c)
    PROVE  TokensInv'
<1> DEFINE n == slot[c]
<1>1. token \in [Calls -> TokenType] /\ pc \in [Calls -> Steps] /\ TypeOK
  BY TypeParts DEF RowsInv, TypeStore, TypeCalls
<1>2. /\ pc[c] = "pin" /\ pc' = [pc EXCEPT ![c] = "logout"] /\ lost' = lost
      /\ UNCHANGED <<store, tenant, slot, phase>>
  BY DEF InitPIN, Goes, process
<1>3. PICK k \in TokensAt(n) : token' = [token EXCEPT ![k].pin = c]
  BY DEF InitPIN
<1>4. /\ pc'[c] = "logout"
      /\ \A d \in Calls : d # c => pc'[d] = pc[d]
      /\ \A d \in Calls : row'[d] = row[d] /\ tenant'[d] = tenant[d] /\ slot'[d] = slot[d]
      /\ phase' = phase
  BY <1>1, <1>2, OthersStand DEF Steps
<1>5. k \in Calls /\ token[k].at = n /\ n \in FreeNumbers /\ n # NoCall
  BY <1>2, NoTokenFacts DEF TokensAt, RowsInv, RowOf, InFlight, Finished, Steps
<1>6. /\ token'[k].pin = c
      /\ \A j \in Calls : j # k => token'[j] = token[j]
      /\ \A j \in Calls : /\ token'[j].at = token[j].at /\ token'[j].by = token[j].by
                          /\ token'[j].label = token[j].label
  BY <1>1, <1>3, <1>5 DEF TokenType
<1>7. \A m : TokensAt(m)' = TokensAt(m)
  BY <1>6 DEF TokensAt
<1>8. c \in token[k].by
  BY <1>2, <1>3 DEF TokensInv, TokenOf, Touched, PastInit, InFlight, Finished, Steps
<1>9. OnePerSlot'
  BY <1>6 DEF OnePerSlot, TokensInv
<1>10. ASSUME NEW d \in Calls
       PROVE  TokenOf(d)'
  <2>1. TokenOf(d)
    BY DEF TokensInv
  <2>2. pc'[d] \in PastInit => pc[d] \in PastInit
    BY <1>2, <1>4 DEF PastInit, InFlight, Finished, Steps
  <2>3. pc[d] \in PastInit => Touched(d, slot[d])'
    BY <1>2, <1>4, <1>6, <1>7, <2>1 DEF TokenOf, Touched, TokensAt
  <2>4. pc'[d] \in {"idle", "init"} => token'[d] = NoToken
    <3>1. k # d \/ pc[d] \notin {"idle", "init"}
      BY <1>5, <2>1, NoTokenFacts DEF TokenOf
    <3>2. QED
      BY <1>4, <1>6, <2>1, <3>1 DEF TokenOf
  <2>5. ASSUME row'[d] # "none" \/ pc'[d] \in PastInit \ {"open", "so", "pin"},
               token'[d].by = {d}, token'[d].at # NoCall
        PROVE  token'[d].pin = d
    <3>1. CASE d = k
      BY <1>6, <1>8, <2>5, <3>1
    <3>2. CASE d # k /\ d = c
      <4>1. token[c].at = n
        BY <1>2, <1>6, <2>1, <2>5, <3>2
        DEF TokenOf, PastInit, InFlight, Finished, Steps
      <4>2. QED
        BY <1>5, <3>2, <4>1 DEF TokensInv, OnePerSlot
    <3>3. CASE d # k /\ d # c
      BY <1>4, <1>6, <2>1, <2>5, <3>3 DEF TokenOf
    <3>4. QED
      BY <3>1, <3>2, <3>3
  <2>6. QED
    BY <1>4, <1>6, <2>1, <2>2, <2>3, <2>4, <2>5 DEF TokenOf
<1>11. QED
  BY <1>9, <1>10 DEF TokensInv

\* A deletion takes the token away, and its slot is not used again before a restart.
LEMMA LosesToken ==
    ASSUME RowsInv, TokensInv, NEW k \in Calls, DeleteSlot(k)
    PROVE  TokensInv'
<1>1. token \in [Calls -> TokenType]
  BY TypeParts DEF RowsInv, TypeStore
<1>2. /\ UNCHANGED <<pc, row, tenant, slot, phase>>
      /\ lost' = lost \cup {token[k].at} /\ token[k].at # NoCall
      /\ token' = [token EXCEPT ![k].at = NoCall]
  BY DEF DeleteSlot, store, process
<1>3. /\ token'[k].at = NoCall
      /\ \A j \in Calls : j # k => token'[j] = token[j]
      /\ \A j \in Calls : /\ token'[j].pin = token[j].pin /\ token'[j].by = token[j].by
                          /\ token'[j].label = token[j].label
  BY <1>1, <1>2 DEF TokenType
<1>4. OnePerSlot'
  BY <1>3 DEF OnePerSlot, TokensInv
<1>5. ASSUME NEW d \in Calls
      PROVE  TokenOf(d)'
  <2>1. TokenOf(d)
    BY DEF TokensInv
  <2>2. slot[d] # NoCall
    BY NoTokenFacts, TypeParts DEF RowsInv, TypeCalls
  <2>3. pc[d] \in PastInit => Touched(d, slot[d])'
    <3>1. TokensAt(slot[d])' = TokensAt(slot[d]) \ {k}
      BY <1>2, <1>3, <2>2 DEF TokensAt
    <3>2. k \in TokensAt(slot[d]) => slot[d] \in lost'
      BY <1>2 DEF TokensAt
    <3>3. QED
      BY <1>2, <1>3, <2>1, <3>1, <3>2 DEF TokenOf, Touched, TokensAt
  <2>4. pc[d] \in {"idle", "init"} => token'[d] = NoToken
    BY <1>2, <1>3, <2>1, NoTokenFacts DEF TokenOf
  <2>5. token'[d].at \in {token[d].at, NoCall}
    BY <1>3
  <2>6. QED
    BY <1>2, <1>3, <2>1, <2>3, <2>4, <2>5, NoTokenFacts DEF TokenOf
<1>6. QED
  BY <1>4, <1>5 DEF TokensInv

\* A restart gives every token its own number, and ends every call.
LEMMA RenumbersTokens ==
    ASSUME RowsInv, TokensInv, Restart
    PROVE  TokensInv'
<1>1. token \in [Calls -> TokenType] /\ pc \in [Calls -> Steps]
  BY TypeParts DEF RowsInv, TypeStore, TypeCalls
<1>2. UNCHANGED <<row, tenant, slot>> /\ phase' = "booting"
  BY DEF Restart, store
<1>3. ASSUME NEW d \in Calls
      PROVE  /\ token[d].at = NoCall => token'[d] = token[d]
             /\ token[d].at # NoCall => token'[d].at = d
             /\ token'[d].pin = token[d].pin /\ token'[d].by = token[d].by
             /\ token'[d].label = token[d].label
  BY <1>1 DEF Restart, TokenType
<1>4. ASSUME NEW d \in Calls
      PROVE  pc'[d] \in Finished /\ (pc'[d] \in {"idle", "init"} => pc[d] = "idle")
  BY <1>1 DEF Restart, Finished
<1>5. OnePerSlot'
  BY <1>3 DEF OnePerSlot, TokensInv
<1>6. ASSUME NEW d \in Calls
      PROVE  TokenOf(d)'
  <2>1. TokenOf(d) /\ pc'[d] \notin PastInit
    BY <1>4 DEF TokensInv, PastInit, InFlight
  <2>2. QED
    BY <1>2, <1>3, <1>4, <2>1, NoTokenFacts DEF TokenOf
<1>7. QED
  BY <1>5, <1>6 DEF TokensInv

\* What a token says of its call stays true.
LEMMA TokensStep ==
    ASSUME RowsInv, TokensInv, [Next]_vars
    PROVE  TokensInv'
BY MostKeepTokens, TokensStay, MakesToken, WipesToken, SetsPIN, LosesToken, RenumbersTokens

\* And so it is true at all times.
LEMMA TokensAlways == Spec => []TokensInv
<1>1. RowsInv /\ TokensInv /\ [Next]_vars => TokensInv'
  BY TokensStep
<1>2. QED
  BY TokensInit, RowsAlways, <1>1, PTL DEF Spec

\* The PIN that a row keeps opens the token of its tenant, whatever failed or crashed on the
\* way and however the slots are numbered since, as long as no other call initialised the same
\* slot: C_InitPIN has answered before the row and its metadata say so.
THEOREM RowAlwaysOpensToken == Spec => []RowOpensToken
<1>1. RowsInv /\ TokensInv => RowOpensToken
  BY DEF TokensInv, TokenOf, RowOpensToken, Undisturbed
<1>2. QED
  BY RowsAlways, TokensAlways, <1>1, PTL

----------------------------------------------------------------------------
(* Sessions. *)

\* Whose session s on slot n is; SessionsAreOwned, by name.
Owned(s, n) ==
    \E c \in Calls :
        \/ s = SO(c) /\ slot[c] = n /\ pc[c] \in WithSO
        \/ s = User(c) /\ slot[c] = n /\ pc[c] \in WithUser
        \/ s = User(c) /\ client[n] = c

\* SessionsAreOwned says that each session is Owned.
LEMMA SessionsNamed ==
    /\ SessionsAreOwned <=> \A n \in Numbers : /\ \A s \in open[n] : Owned(s, n)
                                               /\ login[n] # "none" => open[n] # {}
    /\ SessionsAreOwned' <=> \A n \in Numbers : /\ \A s \in open'[n] : Owned(s, n)'
                                                /\ login'[n] # "none" => open'[n] # {}
BY DEF SessionsAreOwned, Owned, WithSO, WithUser

\* No two calls have a session in common, nor has one call two in one.
LEMMA SessionNames ==
    \A c, d : /\ SO(c) # User(d)
              /\ SO(c) = SO(d) => c = d
              /\ User(c) = User(d) => c = d
BY DEF SO, User

\* At the start there is no session.
LEMMA SessionsInit == Init => SessionsInv
<1> SUFFICES ASSUME Init PROVE SessionsInv
  OBVIOUS
<1>1. SessionsAreOwned
  BY DEF Init, SessionsAreOwned
<1>2. ASSUME NEW c \in Calls
      PROVE  SessionOf(c)
  BY NoTokenFacts DEF Init, SessionOf, WithSO, WithUser
<1>3. QED
  BY <1>1, <1>2 DEF SessionsInv

\* What a call that is over was, and is.
Over == {"ok", "failed", "gone"}

\* The steps that leave the sessions and the clients alone, and no call without its session.
SessionsKept ==
    /\ open' = open /\ login' = login /\ client' = client
    /\ Library' => Library
    /\ \A d \in Calls :
          /\ pc'[d] \in WithSO <=> pc[d] \in WithSO
          /\ pc'[d] \in WithUser <=> pc[d] \in WithUser
          /\ pc[d] \in Over => pc'[d] \in Over /\ row'[d] = row[d]
          /\ pc[d] # "idle" => slot'[d] = slot[d]

\* They keep what is owned.
LEMMA SessionsStay ==
    ASSUME SessionsInv, SessionsKept, todo' \cup booted' \subseteq todo \cup booted
    PROVE  SessionsInv'
<1>1. ASSUME NEW n \in Numbers, NEW s \in open[n]
      PROVE  Owned(s, n)'
  <2>1. Owned(s, n)
    BY SessionsNamed DEF SessionsInv
  <2>2. QED
    BY <2>1 DEF Owned, SessionsKept, WithSO, WithUser
<1>2. SessionsAreOwned'
  BY <1>1, SessionsNamed DEF SessionsInv, SessionsKept
<1>3. ASSUME NEW c \in Calls
      PROVE  SessionOf(c)'
  <2>1. SessionOf(c)
    BY DEF SessionsInv
  <2>2. QED
    BY <2>1 DEF SessionOf, SessionsKept, WithSO, WithUser, Over
<1>4. QED
  BY <1>2, <1>3 DEF SessionsInv

\* Once over, a call and its row do not change.
LEMMA OverIsOver ==
    ASSUME RowsInv, [Next]_vars, NEW d \in Calls, pc[d] \in Over
    PROVE  pc'[d] = pc[d] /\ row'[d] = row[d] /\ slot'[d] = slot[d] /\ tenant'[d] = tenant[d]
<1>1. Onward(d) /\ RowGoes(d)
  BY CallsGoOn, RowsChange DEF RowsInv
<1>2. QED
  BY <1>1 DEF Onward, RowGoes, Over, InFlight, Finished, Steps

\* The calls' steps that are such, and DeleteSlot.
LEMMA SessionsKeptSteps ==
    ASSUME RowsInv, SessionsInv, NEW c \in Calls,
           Refused(c) \/ Start(c) \/ InitToken(c) \/ InitPIN(c) \/ CreateRow(c)
           \/ CreateMetadataFails(c) \/ DeleteSlot(c)
    PROVE  SessionsInv'
<1>1. [Next]_vars
  BY DEF Next, Step
<1>2. pc \in [Calls -> Steps] /\ slot \in [Calls -> Numbers]
  BY TypeParts DEF RowsInv, TypeCalls
<1>3. UNCHANGED <<open, login, client, phase, todo, booted>>
  BY DEF Refused, Start, InitToken, InitPIN, CreateRow, CreateMetadataFails, DeleteSlot, session,
     process
<1>4. ASSUME NEW d \in Calls
      PROVE  /\ pc'[d] \in WithSO <=> pc[d] \in WithSO
             /\ pc'[d] \in WithUser <=> pc[d] \in WithUser
             /\ pc[d] # "idle" => slot'[d] = slot[d]
  <2>1. ASSUME ~DeleteSlot(c)
        PROVE  \E s \in Steps : /\ pc' = [pc EXCEPT ![c] = s]
                                /\ pc[c] \in WithSO <=> s \in WithSO
                                /\ pc[c] \in WithUser <=> s \in WithUser
    BY <2>1 DEF Refused, Start, InitToken, InitPIN, CreateRow, CreateMetadataFails, Goes, WithSO,
       WithUser, Steps
  <2>2. DeleteSlot(c) => pc' = pc
    BY DEF DeleteSlot
  <2>3. Onward(d)
    BY <1>1, CallsGoOn DEF RowsInv
  <2>4. QED
    BY <1>2, <2>1, <2>2, <2>3 DEF Onward
<1>5. SessionsKept
  BY <1>1, <1>3, <1>4, OverIsOver DEF SessionsKept, Library
<1>6. QED
  BY <1>3, <1>5, SessionsStay

\* A call opens a session on its slot.
LEMMA SessionOpens ==
    ASSUME RowsInv, SessionsInv, NEW c \in Calls, OpenSOSession(c) \/ OpenUserSession(c)
    PROVE  SessionsInv'
<1>1. [Next]_vars
  BY DEF Next, Step
<1>2. /\ pc \in [Calls -> Steps] /\ slot \in [Calls -> Numbers]
      /\ open \in [Numbers -> SUBSET (Calls \X {"so", "user"})]
  BY TypeParts DEF RowsInv, TypeCalls, TypeSession
<1>3. /\ login' = login /\ client' = client
      /\ UNCHANGED <<slot, phase, row, todo, booted>>
  BY DEF OpenSOSession, OpenUserSession, OpenSession, process, store
<1>4. PICK s \in {SO(c), User(c)} :
        /\ open' = [open EXCEPT ![slot[c]] = @ \cup {s}]
        /\ s = SO(c) => pc[c] = "open" /\ pc' = [pc EXCEPT ![c] = "so"]
        /\ s = User(c) => pc[c] = "client" /\ pc' = [pc EXCEPT ![c] = "user"]
  BY SessionNames DEF OpenSOSession, OpenUserSession, OpenSession, Goes
<1>5. /\ pc[c] \in {"open", "client"}
      /\ \A d \in Calls : d # c => pc'[d] = pc[d]
      /\ \A n \in Numbers : open[n] \subseteq open'[n]
      /\ \A n \in Numbers : \A r : r \in open'[n] => r \in open[n] \/ (r = s /\ n = slot[c])
      /\ s \in open'[slot[c]]
  BY <1>2, <1>4
<1>6. ASSUME NEW n \in Numbers, NEW r \in open'[n]
      PROVE  Owned(r, n)'
  <2>1. CASE r = s /\ n = slot[c]
    BY <1>2, <1>3, <1>4, <2>1 DEF Owned, WithSO, WithUser
  <2>2. CASE r \in open[n]
    <3>1. PICK d \in Calls :
            \/ r = SO(d) /\ slot[d] = n /\ pc[d] \in WithSO
            \/ r = User(d) /\ slot[d] = n /\ pc[d] \in WithUser
            \/ r = User(d) /\ client[n] = d
      BY <2>2, SessionsNamed DEF SessionsInv, Owned
    <3>2. client[n] # c /\ pc[c] \notin WithSO \cup WithUser
      BY <1>5 DEF SessionsInv, SessionOf, WithSO, WithUser
    <3>3. QED
      BY <1>3, <1>5, <3>1, <3>2 DEF Owned
  <2>3. QED
    BY <1>5, <2>1, <2>2
<1>7. SessionsAreOwned'
  BY <1>3, <1>5, <1>6, SessionsNamed DEF SessionsInv
<1>8. ASSUME NEW d \in Calls
      PROVE  SessionOf(d)'
  <2>1. SessionOf(d)
    BY DEF SessionsInv
  <2>2. CASE d = c
    BY <1>2, <1>3, <1>4, <1>5, <2>1, <2>2 DEF SessionOf, WithSO, WithUser
  <2>3. CASE d # c
    BY <1>2, <1>3, <1>5, <2>1, <2>3 DEF SessionOf, Library
  <2>4. QED
    BY <2>2, <2>3
<1>9. QED
  BY <1>7, <1>8 DEF SessionsInv

\* A call logs in or out on its slot, where it has a session.
LEMMA SessionLogs ==
    ASSUME RowsInv, SessionsInv, NEW c \in Calls, LoginSO(c) \/ LogoutSO(c) \/ LoginUser(c)
    PROVE  SessionsInv'
<1>1. /\ pc \in [Calls -> Steps] /\ slot \in [Calls -> Numbers]
      /\ login \in [Numbers -> {"none", "so", "user"}]
  BY TypeParts DEF RowsInv, TypeCalls, TypeSession
<1>2. /\ open' = open /\ client' = client
      /\ UNCHANGED <<slot, phase, row, todo, booted>>
  BY DEF LoginSO, LogoutSO, LoginUser, process, store
<1>3. PICK l \in {"so", "none", "user"} :
        /\ login' = [login EXCEPT ![slot[c]] = l]
        /\ l # "none" => Library /\ pc[c] \in {"so", "user"}
  BY DEF LoginSO, LogoutSO, LoginUser, Goes
<1>4. PICK s \in Steps :
        /\ pc' = [pc EXCEPT ![c] = s]
        /\ pc[c] \in WithSO <=> s \in WithSO
        /\ pc[c] \in WithUser <=> s \in WithUser
        /\ pc[c] \notin Over
  BY DEF LoginSO, LogoutSO, LoginUser, Goes, WithSO, WithUser, Over, Steps
<1>5. SessionOf(c)
  BY DEF SessionsInv
<1>6. \A d \in Calls : /\ pc'[d] \in WithSO <=> pc[d] \in WithSO
                       /\ pc'[d] \in WithUser <=> pc[d] \in WithUser
                       /\ pc[d] \in Over => pc'[d] = pc[d]
  BY <1>1, <1>4
<1>7. ASSUME NEW n \in Numbers
      PROVE  login'[n] # "none" => open[n] # {}
  <2>1. CASE n = slot[c]
    BY <1>1, <1>3, <1>5, <2>1 DEF SessionOf, WithSO, WithUser
  <2>2. CASE n # slot[c]
    BY <1>1, <1>3, <2>2, SessionsNamed DEF SessionsInv
  <2>3. QED
    BY <2>1, <2>2
<1>8. ASSUME NEW n \in Numbers, NEW r \in open[n]
      PROVE  Owned(r, n)'
  <2>1. Owned(r, n)
    BY SessionsNamed DEF SessionsInv
  <2>2. QED
    BY <1>2, <1>6, <2>1 DEF Owned
<1>9. SessionsAreOwned'
  BY <1>2, <1>7, <1>8, SessionsNamed
<1>10. ASSUME NEW d \in Calls
       PROVE  SessionOf(d)'
  <2>1. SessionOf(d)
    BY DEF SessionsInv
  <2>2. QED
    BY <1>2, <1>6, <2>1 DEF SessionOf, Library, Over
<1>11. QED
  BY <1>9, <1>10 DEF SessionsInv

\* A call closes the sessions it has and is over, or goes on without: only its own.
LEMMA SessionCloses ==
    ASSUME RowsInv, SessionsInv, NEW c \in Calls,
           CreateRowFails(c) \/ CreateMetadata(c) \/ Undo(c) \/ CallFails(c)
    PROVE  SessionsInv'
<1>1. [Next]_vars
  BY DEF Next, Step
<1>2. /\ pc \in [Calls -> Steps] /\ slot \in [Calls -> Numbers]
      /\ open \in [Numbers -> SUBSET (Calls \X {"so", "user"})]
      /\ login \in [Numbers -> {"none", "so", "user"}]
  BY TypeParts DEF RowsInv, TypeCalls, TypeSession
<1>3. UNCHANGED <<slot, client, phase, todo, booted>>
  BY DEF CreateRowFails, CreateMetadata, Undo, CallFails, process
<1>4. PICK s \in {"failed", "client"} : pc' = [pc EXCEPT ![c] = s]
  BY DEF CreateRowFails, CreateMetadata, Undo, CallFails, Goes, Fails
<1>5. pc[c] \notin Over \cup {"idle"} /\ (pc[c] \in WithUser => CallFails(c))
  BY DEF CreateRowFails, CreateMetadata, Undo, CallFails, Goes, Over, WithUser
<1>6. PICK S \in SUBSET {SO(c), User(c)} :
        /\ open' = [open EXCEPT ![slot[c]] = @ \ S]
        /\ SO(c) \in S /\ (CallFails(c) => User(c) \in S)
        /\ \A n \in Numbers : /\ login'[n] # "none" => login[n] # "none"
                              /\ n = slot[c] /\ login'[n] # "none" => open'[n] # {}
  <2>1. CASE CallFails(c)
    BY <1>2, <2>1 DEF CallFails
  <2>2. CASE ~CallFails(c)
    <3>1. CloseSession(slot[c], SO(c))
      BY <2>2 DEF CreateRowFails, CreateMetadata, Undo
    <3>2. QED
      BY <1>2, <2>2, <3>1 DEF CloseSession
  <2>3. QED
    BY <2>1, <2>2
<1>7. /\ \A d \in Calls : d # c => pc'[d] = pc[d]
      /\ pc'[c] \in {"failed", "client"}
      /\ \A n \in Numbers : open'[n] \subseteq open[n]
      /\ \A n \in Numbers : n # slot[c] => open'[n] = open[n]
      /\ \A r : r \in open'[slot[c]] <=> r \in open[slot[c]] /\ r \notin S
  BY <1>2, <1>4, <1>6
<1>8. ASSUME NEW n \in Numbers, NEW r \in open'[n]
      PROVE  Owned(r, n)'
  <2>1. PICK d \in Calls :
          \/ r = SO(d) /\ slot[d] = n /\ pc[d] \in WithSO
          \/ r = User(d) /\ slot[d] = n /\ pc[d] \in WithUser
          \/ r = User(d) /\ client[n] = d
    BY <1>7, SessionsNamed DEF SessionsInv, Owned
  <2>2. client[n] # c
    BY <1>5 DEF SessionsInv, SessionOf, Over
  <2>3. d # c
    BY <1>5, <1>6, <1>7, <2>1, <2>2 DEF WithUser
  <2>4. QED
    BY <1>3, <1>7, <2>1, <2>3 DEF Owned
<1>9. ASSUME NEW n \in Numbers
      PROVE  login'[n] # "none" => open'[n] # {}
  BY <1>6, <1>7, SessionsNamed DEF SessionsInv
<1>10. SessionsAreOwned'
  BY <1>8, <1>9, SessionsNamed
<1>11. ASSUME NEW d \in Calls
       PROVE  SessionOf(d)'
  <2>1. SessionOf(d)
    BY DEF SessionsInv
  <2>2. pc[d] \in Over => pc'[d] = pc[d] /\ row'[d] = row[d]
    BY <1>1, OverIsOver
  <2>3. CASE d = c
    BY <1>3, <1>5, <1>7, <2>1, <2>3 DEF SessionOf, WithSO, WithUser, Over
  <2>4. CASE d # c
    <3>1. \A n \in Numbers : /\ SO(d) \in open[n] => SO(d) \in open'[n]
                             /\ User(d) \in open[n] => User(d) \in open'[n]
      BY <1>6, <1>7, <2>4, SessionNames
    <3>2. QED
      BY <1>2, <1>3, <1>7, <2>1, <2>2, <2>4, <3>1 DEF SessionOf, Library, Over
  <2>5. QED
    BY <2>3, <2>4
<1>12. QED
  BY <1>10, <1>11 DEF SessionsInv

\* RegisterClient puts the call's session into the map, and closes the session it replaces.
LEMMA ClientRegistered ==
    ASSUME RowsInv, SessionsInv, NEW c \in Calls, Register(c)
    PROVE  SessionsInv'
<1> DEFINE m == slot[c]
           p == client[m]
<1>1. [Next]_vars
  BY DEF Next, Step
<1>2. /\ pc \in [Calls -> Steps] /\ m \in Numbers
      /\ client \in [Numbers -> Calls \cup {NoCall}]
      /\ open \in [Numbers -> SUBSET (Calls \X {"so", "user"})]
      /\ login \in [Numbers -> {"none", "so", "user"}]
  BY TypeParts DEF RowsInv, TypeCalls, TypeSession
<1>3. /\ UNCHANGED <<slot, phase, todo, booted>>
      /\ pc[c] = "register" /\ pc' = [pc EXCEPT ![c] = "ok"]
      /\ client' = [client EXCEPT ![m] = c]
  BY DEF Register, Goes, RegisterClient, process
<1>4. /\ p = NoCall => open' = open /\ login' = login
      /\ p # NoCall => /\ open' = [open EXCEPT ![m] = @ \ {User(p)}]
                       /\ login' = [login EXCEPT ![m] = "none"]
  BY DEF Register, RegisterClient, session
<1>5. p \in Calls => pc[p] \in Over
  BY <1>2 DEF SessionsInv, SessionOf, Over
<1>6. /\ pc'[c] = "ok" /\ client'[m] = c
      /\ \A d \in Calls : d # c => pc'[d] = pc[d]
      /\ \A n \in Numbers : n # m => /\ client'[n] = client[n] /\ open'[n] = open[n]
                                     /\ login'[n] = login[n]
      /\ open'[m] = IF p = NoCall THEN open[m] ELSE open[m] \ {User(p)}
      /\ login'[m] = IF p = NoCall THEN login[m] ELSE "none"
  BY <1>2, <1>3, <1>4
<1>7. ASSUME NEW n \in Numbers, NEW r \in open'[n]
      PROVE  Owned(r, n)'
  <2>1. PICK d \in Calls :
          \/ r = SO(d) /\ slot[d] = n /\ pc[d] \in WithSO
          \/ r = User(d) /\ slot[d] = n /\ pc[d] \in WithUser
          \/ r = User(d) /\ client[n] = d
    BY <1>6, SessionsNamed DEF SessionsInv, Owned
  <2>2. CASE d = c
    <3>1. r = User(c) /\ n = m
      BY <1>3, <2>1, <2>2 DEF WithSO, SessionsInv, SessionOf
    <3>2. QED
      BY <1>6, <3>1 DEF Owned
  <2>3. CASE d # c
    <3>1. client[n] = d => n # m \/ r # User(d)
      BY <1>6, NoTokenFacts
    <3>2. QED
      BY <1>3, <1>6, <2>1, <2>3, <3>1 DEF Owned
  <2>4. QED
    BY <2>2, <2>3
<1>8. ASSUME NEW n \in Numbers
      PROVE  login'[n] # "none" => open'[n] # {}
  BY <1>6, SessionsNamed DEF SessionsInv
<1>9. SessionsAreOwned'
  BY <1>7, <1>8, SessionsNamed
<1>10. ASSUME NEW d \in Calls
       PROVE  SessionOf(d)'
  <2>1. SessionOf(d) /\ slot[d] \in Numbers
    BY TypeParts DEF SessionsInv, RowsInv, TypeCalls
  <2>2. pc[d] \in Over => pc'[d] = pc[d] /\ row'[d] = row[d]
    BY <1>1, OverIsOver
  <2>3. CASE d = c
    BY <1>3, <1>6, <2>1, <2>3 DEF SessionOf, WithSO, WithUser
  <2>4. CASE d # c
    <3>1. pc[d] \in WithSO \cup WithUser => d # p
      BY <1>5 DEF WithSO, WithUser, Over
    <3>2. \A n \in Numbers : /\ SO(d) \in open[n] => SO(d) \in open'[n]
                             /\ User(d) \in open[n] /\ d # p => User(d) \in open'[n]
      BY <1>6, SessionNames
    <3>3. \A n \in Numbers : client'[n] = d => client[n] = d
      BY <1>6, <2>4
    <3>4. QED
      BY <1>3, <1>6, <2>1, <2>2, <2>4, <3>1, <3>2, <3>3 DEF SessionOf, Library, Over
  <2>5. QED
    BY <2>3, <2>4
<1>11. QED
  BY <1>9, <1>10 DEF SessionsInv

\* Bootstrap makes a client of a row, whose session is the only one on its slot.
LEMMA ClientBooted ==
    ASSUME RowsInv, SessionsInv, NEW c \in Calls, BootRow(c)
    PROVE  SessionsInv'
<1>1. [Next]_vars
  BY DEF Next, Boot
<1>2. /\ client \in [Numbers -> Calls \cup {NoCall}] /\ todo \subseteq Calls
      /\ open \in [Numbers -> SUBSET (Calls \X {"so", "user"})]
      /\ login \in [Numbers -> {"none", "so", "user"}]
  BY TypeParts DEF RowsInv, TypeSession, TypeMain
<1>3. /\ UNCHANGED <<slot, phase, pc, row>>
      /\ phase = "reading" /\ c \in todo
      /\ todo' \cup booted' \subseteq todo \cup booted
  BY DEF BootRow
<1>4. PICK n \in Numbers :
        \/ UNCHANGED <<client, session>>
        \/ /\ client' = [client EXCEPT ![n] = c]
           /\ open' = [open EXCEPT ![n] = {User(c)}]
           /\ login' = [login EXCEPT ![n] = IF client[n] = NoCall THEN "user" ELSE "none"]
  <2>1. Resolved(c) \subseteq Numbers
    BY ResolvedNumbers DEF RowsInv
  <2>2. PICK n \in Resolved(c) :
          IF LogsIn(n, c)
          THEN /\ client' = [client EXCEPT ![n] = c]
               /\ open' = [open EXCEPT ![n] = {User(c)}]
               /\ login' = [login EXCEPT ![n] = IF client[n] = NoCall THEN "user" ELSE "none"]
          ELSE UNCHANGED <<client, session>>
    BY DEF BootRow
  <2>3. n \in Numbers
    BY <2>1
  <2>4. QED
    BY <2>2, <2>3, Zenon
<1>5. ASSUME NEW d \in Calls
      PROVE  pc[d] \notin WithSO \cup WithUser
  BY <1>3 DEF RowsInv, RowOf, Booting, WithSO, WithUser, Finished
<1>6. CASE UNCHANGED <<client, session>>
  <2>1. SessionsKept
    BY <1>3, <1>6 DEF SessionsKept, Library, session
  <2>2. QED
    BY <1>3, <2>1, SessionsStay
<1>7. CASE /\ client' = [client EXCEPT ![n] = c]
           /\ open' = [open EXCEPT ![n] = {User(c)}]
           /\ login' = [login EXCEPT ![n] = IF client[n] = NoCall THEN "user" ELSE "none"]
  <2>1. /\ client'[n] = c /\ open'[n] = {User(c)}
        /\ \A m \in Numbers : m # n => /\ client'[m] = client[m] /\ open'[m] = open[m]
                                       /\ login'[m] = login[m]
    BY <1>2, <1>7
  <2>2. ASSUME NEW m \in Numbers, NEW r \in open'[m]
        PROVE  Owned(r, m)'
    <3>1. CASE m = n
      BY <2>1, <3>1 DEF Owned
    <3>2. CASE m # n
      <4>1. PICK d \in Calls : r = User(d) /\ client[m] = d
        BY <1>5, <2>1, <3>2, SessionsNamed DEF SessionsInv, Owned
      <4>2. QED
        BY <2>1, <3>2, <4>1 DEF Owned
    <3>3. QED
      BY <3>1, <3>2
  <2>3. ASSUME NEW m \in Numbers
        PROVE  login'[m] # "none" => open'[m] # {}
    BY <2>1, SessionsNamed DEF SessionsInv
  <2>4. SessionsAreOwned'
    BY <2>2, <2>3, SessionsNamed
  <2>5. ASSUME NEW d \in Calls
        PROVE  SessionOf(d)'
    <3>1. SessionOf(d) /\ SessionOf(c)
      BY DEF SessionsInv
    <3>2. QED
      BY <1>3, <1>5, <2>1, <3>1 DEF SessionOf
  <2>6. QED
    BY <2>4, <2>5 DEF SessionsInv
<1>8. QED
  BY <1>4, <1>6, <1>7

\* Bootstrap takes up the whole rows, whose calls are over by then.
LEMMA RowsRead ==
    ASSUME RowsInv, SessionsInv, ReadRows
    PROVE  SessionsInv'
<1>1. /\ UNCHANGED <<pc, row, slot, booted, client, open, login>>
      /\ phase = "booting" /\ phase' = "reading"
      /\ todo' = {c \in Calls : row[c] = "whole"}
  BY DEF ReadRows, store, session
<1>2. SessionsAreOwned'
  BY <1>1 DEF SessionsInv, SessionsAreOwned
<1>3. ASSUME NEW c \in Calls
      PROVE  SessionOf(c)'
  <2>1. SessionOf(c) /\ RowOf(c)
    BY DEF SessionsInv, RowsInv
  <2>2. row[c] = "whole" => pc[c] \in {"ok", "failed", "gone"}
    BY <1>1, <2>1 DEF RowOf, Booting, Finished
  <2>3. QED
    BY <1>1, <2>1, <2>2 DEF SessionOf, Library
<1>4. QED
  BY <1>2, <1>3 DEF SessionsInv

\* And main()'s.
LEMMA MainKeepsSessions ==
    ASSUME RowsInv, SessionsInv,
           \/ ReadRowsFails \/ BootEnds \/ (\E c \in Calls : SkipRow(c)) \/ Signal \/ Drain
           \/ ListenerFails \/ FinalizeFails \/ UNCHANGED vars
    PROVE  SessionsInv'
<1>1. /\ UNCHANGED <<pc, row, slot, booted, client, open, login>>
      /\ todo' \subseteq todo
      /\ Library' => Library
  BY DEF ReadRowsFails, BootEnds, SkipRow, Signal, Drain, ListenerFails, FinalizeFails, MainGoes,
     vars, store, session, Library
<1>2. SessionsKept
  BY <1>1 DEF SessionsKept
<1>3. QED
  BY <1>1, <1>2, SessionsStay

\* CloseAll closes the clients in the map; the calls in flight keep their sessions.
LEMMA ClientsClosed ==
    ASSUME RowsInv, SessionsInv, CloseClients
    PROVE  SessionsInv'
<1>1. /\ UNCHANGED <<pc, row, slot, todo, booted>> /\ phase = "down"
      /\ client' = [n \in Numbers |-> NoCall]
      /\ open' = [n \in Numbers |-> open[n] \ {User(client[n])}]
      /\ login' = [n \in Numbers |-> IF client[n] = NoCall THEN login[n] ELSE "none"]
  BY DEF CloseClients, MainGoes, store
<1>2. open \in [Numbers -> SUBSET (Calls \X {"so", "user"})] /\ slot \in [Calls -> Numbers]
  BY TypeParts DEF RowsInv, TypeSession, TypeCalls
<1>3. ASSUME NEW n \in Numbers, NEW r \in open'[n]
      PROVE  Owned(r, n)'
  <2>1. r \in open[n] /\ r # User(client[n])
    BY <1>1
  <2>2. Owned(r, n)
    BY <2>1, SessionsNamed DEF SessionsInv
  <2>3. QED
    BY <1>1, <2>1, <2>2 DEF Owned
<1>4. ASSUME NEW n \in Numbers, login'[n] # "none"
      PROVE  open'[n] # {}
  <2>1. client[n] = NoCall /\ login[n] # "none"
    BY <1>1, <1>4
  <2>2. open[n] # {}
    BY <2>1, SessionsNamed DEF SessionsInv
  <2>3. User(NoCall) \notin open[n]
    BY <1>2, NoTokenFacts DEF User
  <2>4. QED
    BY <1>1, <2>1, <2>2, <2>3
<1>5. SessionsAreOwned'
  BY <1>3, <1>4, SessionsNamed
<1>6. ASSUME NEW c \in Calls
      PROVE  SessionOf(c)'
  <2>1. SessionOf(c) /\ slot[c] \in Numbers
    BY <1>2 DEF SessionsInv
  <2>2. pc[c] \in WithUser => client[slot[c]] # c
    BY <2>1 DEF SessionOf, WithUser
  <2>3. \A n \in Numbers : client'[n] # c
    BY <1>1, NoTokenFacts
  <2>4. Library
    BY <1>1 DEF Library
  <2>5. QED
    BY <1>1, <2>1, <2>2, <2>3, <2>4, SessionNames DEF SessionOf
<1>7. QED
  BY <1>5, <1>6 DEF SessionsInv

\* C_Finalize, and the end of the process, end them all.
LEMMA SessionsEnd ==
    ASSUME RowsInv, SessionsInv, Finalize \/ Restart
    PROVE  SessionsInv'
<1>1. /\ open' = [n \in Numbers |-> {}]
      /\ login' = [n \in Numbers |-> "none"]
      /\ UNCHANGED <<row, slot>>
      /\ client' = client \/ client' = [n \in Numbers |-> NoCall]
      /\ todo' \cup booted' \subseteq todo \cup booted
  BY DEF Finalize, MainGoes, Restart, store
<1>2. pc \in [Calls -> Steps]
  BY TypeParts DEF RowsInv, TypeCalls
<1>3. SessionsAreOwned'
  BY <1>1 DEF SessionsAreOwned
<1>4. ASSUME NEW c \in Calls
      PROVE  SessionOf(c)'
  <2>1. SessionOf(c)
    BY DEF SessionsInv
  <2>2. pc[c] \in Over => pc'[c] = pc[c]
    BY <1>2 DEF Finalize, MainGoes, Restart, Over, Finished
  <2>3. Library' => pc'[c] \notin WithSO \cup WithUser
    BY <1>2 DEF Finalize, MainGoes, Library, Restart, Finished, WithSO, WithUser
  <2>4. \A n \in Numbers : client'[n] = c => client[n] = c
    BY <1>1, NoTokenFacts
  <2>5. QED
    BY <1>1, <2>1, <2>2, <2>3, <2>4 DEF SessionOf, Over
<1>5. QED
  BY <1>3, <1>4 DEF SessionsInv

\* What is open stays owned, whoever steps.
LEMMA SessionsStep ==
    ASSUME RowsInv, SessionsInv, [Next]_vars
    PROVE  SessionsInv'
<1>1. ASSUME NEW c \in Calls, Step(c) \/ DeleteSlot(c)
      PROVE  SessionsInv'
  BY <1>1, SessionsKeptSteps, SessionOpens, SessionLogs, SessionCloses, ClientRegistered, Zenon
  DEF Step
<1>2. CASE Boot
  BY <1>2, RowsRead, MainKeepsSessions, ClientBooted, Zenon DEF Boot
<1>3. CASE Stop
  BY <1>3, MainKeepsSessions, ClientsClosed, SessionsEnd, Zenon DEF Stop
<1>4. QED
  BY <1>1, <1>2, <1>3, MainKeepsSessions, SessionsEnd, Zenon DEF Next

\* And so it is owned at all times.
LEMMA SessionsAlways == Spec => []SessionsInv
<1>1. RowsInv /\ SessionsInv /\ [Next]_vars => SessionsInv'
  BY SessionsStep
<1>2. QED
  BY SessionsInit, RowsAlways, <1>1, PTL DEF Spec

\* No session outlives the call that opened it, unless it is the client in the map, and no
\* token stays logged in without a session: whatever fails, whoever is replaced and however
\* the server ends, nothing is left behind that would keep C_InitToken from a slot.
THEOREM SessionsAlwaysOwned == Spec => []SessionsAreOwned
<1>1. SessionsInv => SessionsAreOwned
  BY DEF SessionsInv
<1>2. QED
  BY SessionsAlways, <1>1, PTL

----------------------------------------------------------------------------
(* Clients. *)

\* What a step can do to a token: leave it, make it, wipe it in the free slot it was made in,
\* set its PIN, delete it, renumber it.
TokenGoes(k) ==
    \/ token'[k] = token[k]
    \/ /\ pc[k] = "init" /\ token[k] = NoToken /\ ~Restart
       /\ token'[k].at = slot[k] /\ slot[k] \in FreeNumbers \ lost /\ TokensAt(slot[k]) = {}
    \/ /\ token[k].at \in FreeNumbers /\ token'[k].at = token[k].at /\ ~Restart
       /\ \E d \in Calls : pc[d] = "init" /\ token'[k].by = token[k].by \cup {d}
    \/ /\ token'[k].at = token[k].at /\ ~Restart
       /\ token'[k].by = token[k].by /\ token'[k].label = token[k].label
    \/ /\ token'[k].at = NoCall /\ token[k].at \in lost' /\ token[k].at # NoCall /\ ~Restart
       /\ token'[k].by = token[k].by /\ token'[k].label = token[k].label
    \/ /\ Restart
       /\ token[k].at # NoCall /\ token'[k].at = k
       /\ token'[k].by = token[k].by /\ token'[k].label = token[k].label

\* Every step does one of these to a token, and `lost` grows until the restart.
LEMMA TokensGo ==
    ASSUME RowsInv, TokensInv, [Next]_vars, NEW k \in Calls
    PROVE  TokenGoes(k) /\ (~Restart => lost \subseteq lost')
<1>1. /\ token \in [Calls -> TokenType] /\ pc \in [Calls -> Steps] /\ TypeOK
  BY TypeParts DEF RowsInv, TypeStore, TypeCalls
<1>2. ASSUME NEW c \in Calls, InitToken(c) \/ InitPIN(c) \/ DeleteSlot(c), Restart
      PROVE  FALSE
  <2>1. phase' = phase /\ Alive
    BY <1>2 DEF InitToken, InitPIN, DeleteSlot, Goes, process
  <2>2. QED
    BY <1>2, <2>1 DEF Restart, Alive
<1>3. ASSUME NEW c \in Calls, InitToken(c)
      PROVE  TokenGoes(k) /\ (~Restart => lost \subseteq lost')
  <2> DEFINE n == slot[c]
  <2>1. /\ pc[c] = "init" /\ n \notin lost /\ lost' = lost /\ ~Restart
    BY <1>2, <1>3 DEF InitToken, Goes
  <2>2. token[c] = NoToken /\ n \in FreeNumbers
    BY <2>1 DEF TokensInv, TokenOf, RowsInv, RowOf, InFlight, Finished, Steps
  <2>3. CASE TokensAt(n) = {}
    <3>1. token' = [token EXCEPT ![c] = [at |-> n, label |-> tenant[c], pin |-> NoCall,
                                         by |-> {c}]]
      BY <1>3, <2>3 DEF InitToken
    <3>2. QED
      BY <1>1, <2>1, <2>2, <2>3, <3>1 DEF TokenGoes
  <2>4. CASE TokensAt(n) # {}
    <3>1. PICK j \in TokensAt(n) :
            token' = [token EXCEPT ![j].label = tenant[c], ![j].pin = NoCall,
                                   ![j].by = @ \cup {c}]
      <4>1. (CHOOSE j \in TokensAt(n) : TRUE) \in TokensAt(n)
        BY <2>4
      <4>2. QED
        BY <1>3, <2>4, <4>1 DEF InitToken
    <3>2. j \in Calls /\ token[j].at = n
      BY DEF TokensAt
    <3>3. /\ token'[j].at = n /\ token'[j].by = token[j].by \cup {c}
          /\ k # j => token'[k] = token[k]
      BY <1>1, <3>1, <3>2 DEF TokenType
    <3>4. QED
      BY <2>1, <2>2, <3>2, <3>3 DEF TokenGoes
  <2>5. QED
    BY <2>3, <2>4
<1>4. ASSUME NEW c \in Calls, InitPIN(c)
      PROVE  TokenGoes(k) /\ (~Restart => lost \subseteq lost')
  <2>1. PICK j \in TokensAt(slot[c]) : token' = [token EXCEPT ![j].pin = c]
    BY <1>4 DEF InitPIN
  <2>2. lost' = lost /\ ~Restart /\ j \in Calls
    BY <1>2, <1>4 DEF InitPIN, TokensAt
  <2>3. QED
    BY <1>1, <2>1, <2>2 DEF TokenGoes, TokenType
<1>5. ASSUME NEW c \in Calls, DeleteSlot(c)
      PROVE  TokenGoes(k) /\ (~Restart => lost \subseteq lost')
  <2>1. /\ token' = [token EXCEPT ![c].at = NoCall] /\ ~Restart
        /\ lost' = lost \cup {token[c].at} /\ token[c].at # NoCall
    BY <1>2, <1>5 DEF DeleteSlot
  <2>2. QED
    BY <1>1, <2>1 DEF TokenGoes, TokenType
<1>6. ASSUME Restart
      PROVE  TokenGoes(k)
  BY <1>1, <1>6 DEF Restart, TokenGoes, TokenType
<1>7. ASSUME ~Restart, \A c \in Calls : ~InitToken(c) /\ ~InitPIN(c) /\ ~DeleteSlot(c)
      PROVE  TokenGoes(k) /\ lost \subseteq lost'
  BY <1>7, MostKeepTokens DEF TokensKept, TokenGoes
<1>8. QED
  BY <1>3, <1>4, <1>5, <1>6, <1>7

\* Who has touched the token in a slot has touched it until the restart.
LEMMA TouchedStays ==
    ASSUME RowsInv, TokensInv, [Next]_vars, ~Restart, NEW c \in Calls, NEW n \in Numbers,
           Touched(c, n)
    PROVE  Touched(c, n)'
<1>1. ASSUME NEW k \in Calls, token'[k].at = n
      PROVE  c \in token'[k].by
  <2>1. TokenGoes(k)
    BY TokensGo
  <2>2. QED
    BY <1>1, <2>1, NoTokenFacts DEF TokenGoes, Touched, TokensAt
<1>2. ASSUME \A k \in Calls : token'[k].at # n
      PROVE  n \in lost'
  <2>1. CASE TokensAt(n) = {}
    BY <2>1, TokensGo DEF Touched
  <2>2. CASE TokensAt(n) # {}
    <3>1. PICK k \in Calls : token[k].at = n
      BY <2>2 DEF TokensAt
    <3>2. TokenGoes(k)
      BY TokensGo
    <3>3. QED
      BY <1>2, <3>1, <3>2, NoTokenFacts DEF TokenGoes
  <2>3. QED
    BY <2>1, <2>2
<1>3. QED
  BY <1>1, <1>2 DEF Touched, TokensAt

\* A token that is not in a free slot keeps its label, and stays out of the free slots.
LEMMA LabelledStays ==
    ASSUME RowsInv, TokensInv, [Next]_vars, NEW c \in Calls, NEW n \in Calls,
           Labelled(n, c), tenant'[c] = tenant[c]
    PROVE  Labelled(n, c)'
<1>1. TokenGoes(n)
  BY TokensGo
<1>2. tenant[c] # NoCall
  BY ProvisioningAssumption, TypeParts DEF RowsInv, TypeCalls
<1>3. token[n] = NoToken => token[n].label # tenant[c]
  BY <1>2 DEF NoToken
<1>4. QED
  BY <1>1, <1>3, NoTokenFacts DEF Labelled, TokenGoes

\* What is undisturbed after a step was so before it, once the call is past its row.
LEMMA UndisturbedBefore ==
    ASSUME RowsInv, TokensInv, [Next]_vars, ~Restart, NEW c \in Calls,
           pc[c] \in Over \cup {"user", "register"}, Undisturbed(c)'
    PROVE  Undisturbed(c) /\ token'[c].at = token[c].at
<1>1. TokenGoes(c) /\ RowGoes(c) /\ TokenOf(c)
  BY TokensGo, RowsChange DEF RowsInv, TokensInv
<1>2. QED
  BY <1>1 DEF TokenGoes, RowGoes, Undisturbed, Over

\* And no step takes an older token of the tenant, or the row of a call that is over, away.
LEMMA OnlyOldBefore ==
    ASSUME RowsInv, TokensInv, [Next]_vars, ~Restart, NEW c \in Calls, pc[c] \in Over,
           OnlyOld(c)'
    PROVE  OnlyOld(c)
<1>1. tenant'[c] = tenant[c] /\ tenant[c] # NoCall
  BY OverIsOver, ProvisioningAssumption, TypeParts DEF RowsInv, TypeCalls
<1>2. ASSUME NEW k \in Calls \ {c}
      PROVE  token[k].at \in FreeNumbers \/ token[k].label # tenant[c]
  <2>1. TokenGoes(k) /\ (token'[k].at \in FreeNumbers \/ token'[k].label # tenant[c])
    BY <1>1, TokensGo DEF OnlyOld
  <2>2. token[k] = NoToken => token[k].label # tenant[c]
    BY <1>1 DEF NoToken
  <2>3. QED
    BY <2>1, <2>2, NoTokenFacts DEF TokenGoes
<1>3. ASSUME NEW k \in Calls \ {c}, pc[k] \in Over
      PROVE  row[k] = "none" \/ tenant[k] # tenant[c]
  <2>1. pc'[k] = pc[k] /\ row'[k] = row[k] /\ tenant'[k] = tenant[k]
    BY <1>3, OverIsOver
  <2>2. QED
    BY <1>1, <1>3, <2>1 DEF OnlyOld, Over
<1>4. QED
  BY <1>2, <1>3 DEF OnlyOld, Over

\* At the start there is no client.
LEMMA ClientsInit == Init => ClientsInv
<1> SUFFICES ASSUME Init PROVE ClientsInv
  OBVIOUS
<1>1. ASSUME NEW c \in Calls
      PROVE  /\ number[c] = c /\ booted = {} /\ todo = {}
             /\ \A n \in Numbers : client[n] = NoCall /\ login[n] = "none"
  BY DEF Init
<1>2. ASSUME NEW c \in Calls
      PROVE  ClientOf(c)
  BY <1>1, NoTokenFacts DEF ClientOf, Labelled
<1>3. QED
  BY <1>2 DEF ClientsInv, Init

\* Where a row's number comes from: the call that inserts it, or the token that Bootstrap
\* found by its label.
NumberGoes(c) ==
    \/ number'[c] = number[c] /\ temporary'[c] = temporary[c]
    \/ /\ pc[c] = "row" /\ pc'[c] \in {"meta", "failed"}
       /\ number'[c] = slot[c] /\ temporary'[c] = BornTemporary
    \/ /\ phase = "reading" /\ c \in todo
       /\ \E k \in Calls : token[k].at = number'[c] /\ token[k].label = tenant[c]

\* Every step does one of these to a number.
LEMMA NumbersGo ==
    ASSUME RowsInv, [Next]_vars, NEW c \in Calls
    PROVE  NumberGoes(c)
<1>1. /\ number \in [Calls -> Numbers] /\ temporary \in [Calls -> BOOLEAN]
      /\ pc \in [Calls -> Steps]
  BY TypeParts DEF RowsInv, TypeStore, TypeCalls
<1>2. ASSUME NEW d \in Calls, CreateRow(d) \/ CreateRowFails(d)
      PROVE  NumberGoes(c)
  <2>1. /\ pc[d] = "row" /\ \E s \in {"meta", "failed"} : pc' = [pc EXCEPT ![d] = s]
        /\ number' = [number EXCEPT ![d] = slot[d]]
        /\ temporary' = [temporary EXCEPT ![d] = BornTemporary]
    BY <1>2 DEF CreateRow, CreateRowFails, Goes
  <2>2. QED
    BY <1>1, <2>1 DEF NumberGoes
<1>3. ASSUME NEW d \in Calls, BootRow(d)
      PROVE  NumberGoes(c)
  <2>1. PICK n \in Resolved(d) :
          \/ /\ temporary[d] /\ \E k \in TokensAt(n) : token[k].label = tenant[d]
             /\ UpdateSlotNumber(d, n)
          \/ UNCHANGED <<number, temporary>>
    BY <1>3 DEF BootRow
  <2>2. phase = "reading" /\ d \in todo
    BY <1>3 DEF BootRow
  <2>3. QED
    BY <1>1, <2>1, <2>2 DEF UpdateSlotNumber, NumberGoes, TokensAt
<1>4. ASSUME UNCHANGED <<number, temporary>>
      PROVE  NumberGoes(c)
  BY <1>4 DEF NumberGoes
<1>5. ASSUME NEW d \in Calls, Step(d) \/ DeleteSlot(d) \/ SkipRow(d),
             ~CreateRow(d), ~CreateRowFails(d)
      PROVE  UNCHANGED <<number, temporary>>
  BY <1>5 DEF Step, Refused, Start, InitToken, OpenSOSession, LoginSO, InitPIN, LogoutSO,
     CreateMetadata, CreateMetadataFails, Undo, OpenUserSession, LoginUser, Register, CallFails,
     DeleteSlot, SkipRow, store
<1>6. ASSUME ReadRows \/ ReadRowsFails \/ BootEnds \/ Stop \/ Restart \/ UNCHANGED vars
      PROVE  UNCHANGED <<number, temporary>>
  BY <1>6 DEF ReadRows, ReadRowsFails, BootEnds, Stop, Signal, Drain, ListenerFails, CloseClients,
     Finalize, FinalizeFails, MainGoes, Restart, store, vars
<1>7. QED
  BY <1>2, <1>3, <1>4, <1>5, <1>6, Zenon DEF Next, Boot

\* Where a client comes from: the call, or the row.
ClientGoes(n) ==
    \/ client'[n] = client[n] /\ ~Restart
    \/ client'[n] = NoCall
    \/ \E d \in Calls : /\ client'[n] = d /\ ~Restart
                        /\ slot[d] = n /\ pc[d] = "register" /\ pc'[d] = "ok"
    \/ \E d \in Calls : /\ client'[n] = d /\ ~Restart
                        /\ phase = "reading" /\ d \in todo /\ d \in booted'
                        /\ n \in Resolved(d) /\ TokensAt(n) # {}

\* Every step does one of these to a client.
LEMMA ClientsGo ==
    ASSUME RowsInv, [Next]_vars, NEW n \in Numbers
    PROVE  ClientGoes(n)
<1>1. /\ client \in [Numbers -> Calls \cup {NoCall}] /\ pc \in [Calls -> Steps]
  BY TypeParts DEF RowsInv, TypeSession, TypeCalls
<1>2. ASSUME Restart
      PROVE  ClientGoes(n)
  BY <1>2 DEF Restart, ClientGoes
<1>3. ASSUME NEW d \in Calls, Register(d), ~Restart
      PROVE  ClientGoes(n)
  <2>1. /\ pc[d] = "register" /\ pc' = [pc EXCEPT ![d] = "ok"]
        /\ client' = [client EXCEPT ![slot[d]] = d]
    BY <1>3 DEF Register, Goes, RegisterClient
  <2>2. QED
    BY <1>1, <1>3, <2>1 DEF ClientGoes
<1>4. ASSUME NEW d \in Calls, BootRow(d), ~Restart
      PROVE  ClientGoes(n)
  <2>1. PICK m \in Resolved(d) :
          \/ client' = client
          \/ LogsIn(m, d) /\ client' = [client EXCEPT ![m] = d]
    BY <1>4 DEF BootRow
  <2>2. phase = "reading" /\ d \in todo /\ d \in booted'
    BY <1>4 DEF BootRow
  <2>3. LogsIn(m, d) => TokensAt(m) # {}
    BY DEF LogsIn
  <2>4. QED
    BY <1>1, <1>4, <2>1, <2>2, <2>3 DEF ClientGoes
<1>5. ASSUME CloseClients
      PROVE  ClientGoes(n)
  BY <1>5 DEF CloseClients, ClientGoes
<1>6. ASSUME NEW d \in Calls, Step(d) \/ DeleteSlot(d) \/ SkipRow(d), ~Register(d)
      PROVE  client' = client
  BY <1>6 DEF Step, Refused, Start, InitToken, OpenSOSession, LoginSO, InitPIN, LogoutSO,
     CreateRow, CreateRowFails, CreateMetadata, CreateMetadataFails, Undo, OpenUserSession,
     LoginUser, CallFails, DeleteSlot, SkipRow
<1>7. ASSUME ReadRows \/ ReadRowsFails \/ BootEnds \/ Signal \/ Drain \/ ListenerFails
             \/ Finalize \/ FinalizeFails \/ UNCHANGED vars
      PROVE  client' = client
  BY <1>7 DEF ReadRows, ReadRowsFails, BootEnds, Signal, Drain, ListenerFails, Finalize,
     FinalizeFails, MainGoes, vars
<1>8. ASSUME client' = client, ~Restart
      PROVE  ClientGoes(n)
  BY <1>8 DEF ClientGoes
<1>9. QED
  BY <1>2, <1>3, <1>4, <1>5, <1>6, <1>7, <1>8, Zenon DEF Next, Boot, Stop

\* Bootstrap goes through each row once.
BootedGoes(c) ==
    /\ c \in booted' => c \in booted \/ (phase = "reading" /\ c \in todo)
    /\ c \in booted' => ~Restart
    /\ c \in booted => c \in booted' \/ Restart
    /\ c \in todo' => \/ phase = "booting" /\ booted' = booted
                      \/ c \in todo /\ (c \in booted' => c \in booted)
    /\ phase' = "booting" => booted' = {} \/ (phase = "booting" /\ booted' = booted)

\* Every step treats a row so.
LEMMA BootedGo ==
    ASSUME RowsInv, [Next]_vars, NEW c \in Calls
    PROVE  BootedGoes(c)
<1>1. ASSUME UNCHANGED <<todo, booted>>, ~Restart, phase' = "booting" => phase = "booting"
      PROVE  BootedGoes(c)
  BY <1>1 DEF BootedGoes
<1>2. ASSUME NEW d \in Calls, Step(d) \/ DeleteSlot(d)
      PROVE  UNCHANGED <<todo, booted>>
  BY <1>2 DEF Step, Refused, Start, InitToken, OpenSOSession, LoginSO, InitPIN, LogoutSO,
     CreateRow, CreateRowFails, CreateMetadata, CreateMetadataFails, Undo, OpenUserSession,
     LoginUser, Register, CallFails, DeleteSlot, process
<1>3. ASSUME ReadRowsFails \/ BootEnds \/ Stop \/ UNCHANGED vars
      PROVE  UNCHANGED <<todo, booted>>
  BY <1>3 DEF ReadRowsFails, BootEnds, Stop, Signal, Drain, ListenerFails, CloseClients, Finalize,
     FinalizeFails, MainGoes, vars
<1>4. ASSUME ReadRows, ~Restart
      PROVE  BootedGoes(c)
  BY <1>4 DEF ReadRows, BootedGoes
<1>5. ASSUME NEW d \in Calls, BootRow(d) \/ SkipRow(d), ~Restart
      PROVE  BootedGoes(c)
  BY <1>5 DEF BootRow, SkipRow, BootedGoes
<1>6. ASSUME Restart
      PROVE  BootedGoes(c)
  BY <1>6 DEF Restart, BootedGoes
<1>7. ~Restart => (phase' = "booting" => phase = "booting")
  BY MainGoesOn DEF RowsInv
<1>8. QED
  BY <1>1, <1>2, <1>3, <1>4, <1>5, <1>6, <1>7, Zenon DEF Next, Boot

\* While the server boots, every token is at its own number.
LEMMA BootingTokens ==
    ASSUME TokensInv, phase \in Booting, NEW k \in Calls, NEW n \in Numbers, token[k].at = n
    PROVE  n = k
BY NoTokenFacts DEF TokensInv, TokenOf

\* A client that a row got was made on the token the row means.
LEMMA ResolvedLabelled ==
    ASSUME TokensInv, ClientsInv, phase = "reading", NEW c \in Calls, NEW n \in Numbers,
           n \in Resolved(c), TokensAt(n) # {}
    PROVE  n \in Calls /\ Labelled(n, c)
<1>1. PICK k \in Calls : token[k].at = n
  BY DEF TokensAt
<1>2. n = k
  BY <1>1, BootingTokens DEF Booting
<1>3. CASE n = number[c]
  BY <1>2, <1>3 DEF ClientsInv, ClientOf
<1>4. CASE n # number[c]
  <2>1. PICK j \in Calls : token[j].at = n /\ token[j].label = tenant[c]
    BY <1>4 DEF Resolved, TokensAt
  <2>2. n = j
    BY <2>1, BootingTokens DEF Booting
  <2>3. QED
    BY <1>1, <1>2, <2>1, <2>2, NoTokenFacts DEF Labelled
<1>5. QED
  BY <1>3, <1>4

\* Where a client is stays true of it.
LEMMA ClientsStep ==
    ASSUME RowsInv, TokensInv, SessionsInv, ClientsInv, [Next]_vars
    PROVE  ClientsInv'
<1>1. ASSUME NEW n \in Numbers, phase' \in Booting
      PROVE  login'[n] # "so"
  <2>1. CASE Restart
    BY <2>1 DEF Restart
  <2>2. CASE ~Restart
    <3>1. phase \in Booting
      BY <1>1, <2>2, MainGoesOn DEF RowsInv
    <3>2. login[n] # "so" /\ login \in [Numbers -> {"none", "so", "user"}]
      BY <3>1, TypeParts DEF ClientsInv, RowsInv, TypeSession
    <3>3. ASSUME NEW c \in Calls, BootRow(c)
          PROVE  login'[n] # "so"
      <4>1. PICK m \in Resolved(c), l \in {"user", "none"} :
              login' = login \/ login' = [login EXCEPT ![m] = l]
        BY <3>3 DEF BootRow, session
      <4>2. QED
        BY <3>2, <4>1
    <3>4. ASSUME NEW c \in Calls, Step(c)
          PROVE  FALSE
      BY <3>1, <3>4 DEF Step, Refused, Start, InitToken, OpenSOSession, LoginSO, InitPIN,
         LogoutSO, CreateRow, CreateRowFails, CreateMetadata, CreateMetadataFails, Undo,
         OpenUserSession, LoginUser, Register, CallFails, Goes, Alive, Booting
    <3>5. ASSUME \/ ReadRows \/ ReadRowsFails \/ BootEnds \/ UNCHANGED vars
                 \/ \E c \in Calls : SkipRow(c) \/ DeleteSlot(c)
          PROVE  login' = login
      BY <3>5 DEF ReadRows, ReadRowsFails, BootEnds, SkipRow, DeleteSlot, session, vars
    <3>6. ~Stop
      BY <3>1 DEF Stop, Signal, Drain, ListenerFails, CloseClients, Finalize, FinalizeFails,
         MainGoes, Booting
    <3>7. QED
      BY <2>2, <3>2, <3>3, <3>4, <3>5, <3>6, Zenon DEF Next, Boot
  <2>3. QED
    BY <2>1, <2>2
<1>2. ASSUME NEW c \in Calls
      PROVE  ClientOf(c)'
  <2>1. /\ ClientOf(c) /\ RowOf(c) /\ TokenOf(c) /\ SessionOf(c)
        /\ NumberGoes(c) /\ BootedGoes(c) /\ Onward(c) /\ TokenGoes(c)
        /\ pc[c] \in Steps /\ slot[c] \in Numbers
    BY NumbersGo, BootedGo, CallsGoOn, TokensGo, TypeParts
    DEF ClientsInv, RowsInv, TokensInv, SessionsInv, TypeCalls
  <2>2. number[c] \in Numbers /\ number'[c] \in Numbers
    BY TypeStep, TypeParts DEF RowsInv, TypeStore
  <2>3. pc[c] \in Over => pc'[c] = pc[c] /\ slot'[c] = slot[c] /\ tenant'[c] = tenant[c]
    BY OverIsOver
  <2>4. ASSUME number'[c] \in Calls
        PROVE  Labelled(number[c], c)'
    <3>1. CASE number'[c] = number[c] /\ tenant'[c] = tenant[c]
      <4>1. Labelled(number[c], c)
        BY <2>1, <2>4, <3>1 DEF ClientOf
      <4>2. PICK n \in Calls : n = number'[c] /\ n = number[c]
        BY <2>4, <3>1
      <4>3. Labelled(n, c)'
        BY <3>1, <4>1, <4>2, LabelledStays
      <4>4. QED
        BY <4>2, <4>3 DEF Labelled
    <3>2. CASE number'[c] = number[c] /\ tenant'[c] # tenant[c]
      BY <2>1, <3>2 DEF Onward, ClientOf, Labelled
    <3>3. CASE number'[c] # number[c] /\ pc[c] = "row"
      BY <2>1, <2>4, <3>3, NoTokenFacts DEF NumberGoes, RowOf, InFlight, Finished, Steps, SessionOf
    <3>4. CASE number'[c] # number[c] /\ pc[c] # "row"
      <4>1. phase = "reading" /\ c \in todo /\ tenant'[c] = tenant[c]
        BY <2>1, <2>3, <3>4 DEF NumberGoes, SessionOf, Over
      <4>2. PICK k \in Calls : token[k].at = number'[c] /\ token[k].label = tenant[c]
        BY <2>1, <3>4 DEF NumberGoes
      <4>3. number'[c] = k
        BY <2>2, <4>1, <4>2, BootingTokens DEF Booting
      <4>4. Labelled(k, c)
        BY <4>2, <4>3, NoTokenFacts DEF Labelled
      <4>5. Labelled(k, c)'
        BY <4>1, <4>4, LabelledStays
      <4>6. QED
        BY <4>3, <4>5 DEF Labelled
    <3>5. QED
      BY <3>1, <3>2, <3>3, <3>4
  <2>5. pc'[c] \in {"idle", "init", "open", "so", "pin", "logout", "row"} => number'[c] = c
    BY <2>1, <2>3 DEF ClientOf, NumberGoes, Onward, SessionOf, Over, InFlight, Finished, Steps
  <2>6. number'[c] \in FreeNumbers => temporary'[c] \/ ~BornTemporary
    <3>1. ASSUME phase = "reading", NEW k \in Calls, token[k].at = number'[c]
          PROVE  number'[c] \notin FreeNumbers
      BY <2>2, <3>1, BootingTokens, NoTokenFacts DEF Booting
    <3>2. QED
      BY <2>1, <3>1, ProvisioningAssumption DEF ClientOf, NumberGoes
  <2>7. phase' = "booting" => c \notin booted'
    BY <2>1 DEF BootedGoes, ClientOf
  <2>8. ~(c \in todo' /\ c \in booted')
    BY <2>1 DEF BootedGoes, ClientOf
  <2>9. c \in booted' => token'[c].at \notin FreeNumbers
    <3>1. c \in booted' => token[c].at \notin FreeNumbers /\ pc[c] \in Over /\ ~Restart
      BY <2>1 DEF BootedGoes, ClientOf, TokenOf, SessionOf, Over, Booting
    <3>2. QED
      BY <2>1, <3>1, NoTokenFacts DEF TokenGoes, Over
  <2>10. ASSUME NEW n \in Numbers, client'[n] = c
         PROVE  /\ n \in FreeNumbers => slot'[c] = n /\ pc'[c] = "ok" /\ Touched(c, n)'
                /\ n \in Calls => c \in booted' /\ Labelled(n, c)'
    <3>1. ClientGoes(n) /\ c # NoCall
      BY ClientsGo, NoTokenFacts
    <3>2. CASE client[n] = c /\ ~Restart
      <4>1. pc[c] \in Over
        BY <2>1, <3>2 DEF SessionOf, Over
      <4>2. n \in FreeNumbers => Touched(c, n)'
        BY <2>1, <3>2, TouchedStays DEF ClientOf
      <4>3. n \in Calls => Labelled(n, c)'
        BY <2>1, <2>3, <3>2, <4>1, LabelledStays DEF ClientOf
      <4>4. QED
        BY <2>1, <2>3, <3>2, <4>1, <4>2, <4>3 DEF ClientOf, BootedGoes
    <3>3. CASE ~Restart /\ slot[c] = n /\ pc[c] = "register" /\ pc'[c] = "ok"
      <4>1. n \in FreeNumbers /\ Touched(c, n)
        BY <2>1, <3>3 DEF RowOf, TokenOf, PastInit, InFlight, Finished, Steps
      <4>2. Touched(c, n)' /\ slot'[c] = n
        BY <2>1, <3>3, <4>1, TouchedStays DEF Onward
      <4>3. QED
        BY <3>3, <4>1, <4>2, NoTokenFacts
    <3>4. CASE /\ ~Restart /\ phase = "reading" /\ c \in todo /\ c \in booted'
               /\ n \in Resolved(c) /\ TokensAt(n) # {}
      <4>1. n \in Calls /\ Labelled(n, c)
        BY <3>4, ResolvedLabelled
      <4>2. tenant'[c] = tenant[c]
        BY <2>1, <2>3, <3>4 DEF SessionOf, Over
      <4>3. Labelled(n, c)'
        BY <4>1, <4>2, LabelledStays
      <4>4. QED
        BY <3>4, <4>1, <4>3, NoTokenFacts
    <3>5. QED
      BY <2>10, <3>1, <3>2, <3>3, <3>4 DEF ClientGoes
  <2>11. QED
    BY <2>4, <2>5, <2>6, <2>7, <2>8, <2>9, <2>10 DEF ClientOf
<1>3. QED
  BY <1>1, <1>2 DEF ClientsInv

\* At all times.
LEMMA ClientsAlways == Spec => []ClientsInv
<1>1. RowsInv /\ TokensInv /\ SessionsInv /\ ClientsInv /\ [Next]_vars => ClientsInv'
  BY ClientsStep
<1>2. QED
  BY ClientsInit, RowsAlways, TokensAlways, SessionsAlways, <1>1, PTL DEF Spec

\* Nobody is served at the start.
LEMMA ServiceInit == Init => ServiceInv
BY DEF Init, ServiceInv, ServiceOf, Serving

\* A call in flight touches no slot with a token of its own number, and no slot whose token
\* no other call than c has initialised.
LEMMA OthersStayAway ==
    ASSUME RowsInv, TokensInv, NEW c \in Calls, NEW d \in Calls, c # d, Step(d),
           NEW n \in Numbers, User(c) \in open[n],
           n \in Calls \/ (token[c].at = n /\ token[c].by = {c})
    PROVE  client'[n] = client[n] /\ User(c) \in open'[n] /\ login'[n] = login[n]
<1>1. /\ client \in [Numbers -> Calls \cup {NoCall}]
      /\ open \in [Numbers -> SUBSET (Calls \X {"so", "user"})]
      /\ login \in [Numbers -> {"none", "so", "user"}]
      /\ slot[d] \in Numbers
  BY TypeParts DEF RowsInv, TypeSession, TypeCalls
<1>2. RowOf(d) /\ TokenOf(d)
  BY DEF RowsInv, TokensInv
<1>3. CASE Refused(d) \/ Start(d) \/ InitToken(d) \/ InitPIN(d) \/ CreateRow(d)
           \/ CreateMetadataFails(d)
  BY <1>3 DEF Refused, Start, InitToken, InitPIN, CreateRow, CreateMetadataFails, session
<1>4. CASE CallFails(d)
  <2>1. User(c) \notin {SO(d), User(d)}
    BY SessionNames
  <2>2. /\ open' = [open EXCEPT ![slot[d]] = @ \ {SO(d), User(d)}] /\ client' = client
        /\ login' = IF open'[slot[d]] = {} THEN [login EXCEPT ![slot[d]] = "none"] ELSE login
    BY <1>4 DEF CallFails
  <2>3. User(c) \in open'[n]
    BY <1>1, <2>1, <2>2
  <2>4. login'[n] = login[n]
    BY <1>1, <2>2, <2>3
  <2>5. QED
    BY <2>2, <2>3, <2>4
<1>5. CASE OpenSOSession(d) \/ LoginSO(d) \/ LogoutSO(d) \/ CreateRowFails(d)
           \/ CreateMetadata(d) \/ Undo(d) \/ OpenUserSession(d) \/ LoginUser(d) \/ Register(d)
  <2>1. pc[d] \in PastInit
    BY <1>5 DEF OpenSOSession, LoginSO, LogoutSO, CreateRowFails, CreateMetadata, Undo,
       OpenUserSession, LoginUser, Register, Goes, PastInit, InFlight, Finished, Steps
  <2>2. slot[d] # n
    BY <1>2, <2>1, NoTokenFacts DEF RowOf, TokenOf, Touched, TokensAt, PastInit
  <2>3. CASE Register(d)
    BY <1>1, <2>2, <2>3 DEF Register, RegisterClient, session
  <2>4. CASE CreateRowFails(d) \/ CreateMetadata(d) \/ Undo(d)
    BY <1>1, <2>2, <2>4 DEF CreateRowFails, CreateMetadata, Undo, CloseSession
  <2>5. CASE OpenSOSession(d) \/ LoginSO(d) \/ LogoutSO(d) \/ OpenUserSession(d) \/ LoginUser(d)
    BY <1>1, <2>2, <2>5 DEF OpenSOSession, LoginSO, LogoutSO, OpenUserSession, LoginUser,
       OpenSession
  <2>6. QED
    BY <1>5, <2>3, <2>4, <2>5
<1>6. QED
  BY <1>3, <1>4, <1>5, Zenon DEF Step

\* So the client in such a slot stays, and stays logged in, as long as the server serves.
LEMMA ConnectionStays ==
    ASSUME RowsInv, TokensInv, [Next]_vars, ~Restart, phase' \in Serving \cup {"reading"},
           NEW c \in Calls, ~Step(c), NEW n \in Numbers, User(c) \in open[n],
           n \in Calls \/ (token[c].at = n /\ token[c].by = {c}),
           \A d \in Calls : BootRow(d) => n \notin Resolved(d)
    PROVE  client'[n] = client[n] /\ User(c) \in open'[n] /\ login'[n] = login[n]
<1>1. ASSUME NEW d \in Calls, Step(d)
      PROVE  client'[n] = client[n] /\ User(c) \in open'[n] /\ login'[n] = login[n]
  BY <1>1, OthersStayAway
<1>2. ASSUME NEW d \in Calls, BootRow(d)
      PROVE  client'[n] = client[n] /\ User(c) \in open'[n] /\ login'[n] = login[n]
  <2>1. PICK m \in Resolved(d) :
          IF LogsIn(m, d)
          THEN /\ client' = [client EXCEPT ![m] = d]
               /\ open' = [open EXCEPT ![m] = {User(d)}]
               /\ login' = [login EXCEPT ![m] = IF client[m] = NoCall THEN "user" ELSE "none"]
          ELSE UNCHANGED <<client, session>>
    BY <1>2 DEF BootRow
  <2>2. m # n
    BY <1>2
  <2>3. QED
    BY <2>1, <2>2, TypeParts DEF RowsInv, TypeSession, session
<1>3. ASSUME CloseClients \/ Finalize
      PROVE  FALSE
  BY <1>3 DEF CloseClients, Finalize, MainGoes, Serving
<1>4. ASSUME \/ ReadRows \/ ReadRowsFails \/ BootEnds \/ Signal \/ Drain \/ ListenerFails
             \/ FinalizeFails \/ UNCHANGED vars
             \/ \E d \in Calls : SkipRow(d) \/ DeleteSlot(d)
      PROVE  UNCHANGED <<client, open, login>>
  BY <1>4 DEF ReadRows, ReadRowsFails, BootEnds, Signal, Drain, ListenerFails, FinalizeFails,
     MainGoes, SkipRow, DeleteSlot, session, vars
<1>5. CASE UNCHANGED <<client, open, login>>
  BY <1>5
<1>6. QED
  BY <1>1, <1>2, <1>3, <1>4, <1>5, Zenon DEF Next, Boot, Stop

\* No other row means the token of a row whose tenant has no other token and no other row.
LEMMA OwnRow ==
    ASSUME TokensInv, SessionsInv, ClientsInv, phase = "reading",
           NEW c \in Calls, NEW d \in Calls, c # d, d \in todo \cup booted,
           Undisturbed(c), OnlyOld(c)
    PROVE  token[c].label # tenant[d]
<1>1. token[c].label = tenant[c]
  BY DEF TokensInv, TokenOf, Undisturbed
<1>2. row[d] = "whole" /\ pc[d] \in {"ok", "failed", "gone"}
  BY DEF SessionsInv, SessionOf
<1>3. QED
  BY <1>1, <1>2 DEF OnlyOld

\* So Bootstrap does not put another's client in its slot.
LEMMA NotAnothers ==
    ASSUME RowsInv, TokensInv, SessionsInv, ClientsInv, NEW c \in Calls, NEW d \in Calls, c # d,
           Undisturbed(c), OnlyOld(c), BootRow(d)
    PROVE  c \notin Resolved(d)
<1>1. phase = "reading" /\ d \in todo
  BY DEF BootRow
<1>2. TokensAt(c) # {}
  <2>1. token[c].at = c
    BY <1>1 DEF TokensInv, TokenOf, Undisturbed, Booting
  <2>2. QED
    BY <2>1 DEF TokensAt
<1>3. QED
  BY <1>1, <1>2, OwnRow, ResolvedLabelled, NoTokenFacts DEF Labelled

\* Bootstrap finds the row's own token, whatever number the row holds, and logs in.
LEMMA FindsItsToken ==
    ASSUME RowsInv, TokensInv, SessionsInv, ClientsInv, BornTemporary, NEW c \in Calls,
           Undisturbed(c), OnlyOld(c), BootRow(c)
    PROVE  Connected(c, c)'
<1>1. phase = "reading" /\ c \in todo /\ c \in Numbers /\ c \notin FreeNumbers
  BY NoTokenFacts DEF BootRow
<1>2. /\ client \in [Numbers -> Calls \cup {NoCall}]
      /\ open \in [Numbers -> SUBSET (Calls \X {"so", "user"})]
      /\ login \in [Numbers -> {"none", "so", "user"}]
      /\ number[c] \in Numbers
  BY TypeParts DEF RowsInv, TypeSession, TypeStore
<1>3. token[c].at = c /\ token[c].label = tenant[c] /\ token[c].pin = c
  BY <1>1 DEF TokensInv, TokenOf, Undisturbed, Booting
<1>4. \A k \in Calls : k # c => token[k].label # tenant[c] \/ token[k].at \in FreeNumbers
  BY DEF OnlyOld
<1>5. Resolved(c) = {c}
  <2>1. c \in {n \in Numbers : \E k \in TokensAt(n) : token[k].label = tenant[c]}
    BY <1>1, <1>3 DEF TokensAt
  <2>2. ASSUME NEW n \in Numbers, NEW k \in TokensAt(n), token[k].label = tenant[c]
        PROVE  n = c
    <3>1. k \in Calls /\ token[k].at = n
      BY DEF TokensAt
    <3>2. n = k
      BY <1>1, <3>1, BootingTokens DEF Booting
    <3>3. QED
      BY <1>4, <2>2, <3>1, <3>2, NoTokenFacts
  <2>3. ~temporary[c] => number[c] = c
    BY <1>2, <1>4 DEF ClientsInv, ClientOf, Labelled, Numbers
  <2>4. QED
    BY <2>1, <2>2, <2>3 DEF Resolved
<1>6. LogsIn(c, c)
  BY <1>1, <1>2, <1>3 DEF LogsIn, TokensAt, ClientsInv, Booting
<1>7. client[c] = NoCall
  <2>1. ASSUME NEW d \in Calls, client[c] = d
        PROVE  FALSE
    <3>1. d \in booted /\ Labelled(c, d)
      BY <1>1, <2>1 DEF ClientsInv, ClientOf
    <3>2. d # c
      BY <1>1, <3>1 DEF ClientsInv, ClientOf
    <3>3. QED
      BY <1>1, <3>1, <3>2, OwnRow DEF Labelled
  <2>2. QED
    BY <1>1, <1>2, <2>1
<1>8. /\ client' = [client EXCEPT ![c] = c]
      /\ open' = [open EXCEPT ![c] = {User(c)}]
      /\ login' = [login EXCEPT ![c] = "user"]
  BY <1>5, <1>6, <1>7 DEF BootRow
<1>9. QED
  BY <1>1, <1>2, <1>8 DEF Connected

\* The client of a row that Bootstrap went through.
LEMMA BootedServed ==
    ASSUME RowsInv, TokensInv, SessionsInv, ClientsInv, ServiceInv, BornTemporary, [Next]_vars,
           NEW c \in Calls, phase' \in Serving \cup {"reading"}, c \in booted',
           Undisturbed(c)', OnlyOld(c)'
    PROVE  Connected(c, c)'
<1>1. ~Restart
  BY BootedGo DEF BootedGoes
<1>2. c \in booted \/ (phase = "reading" /\ c \in todo)
  BY BootedGo DEF BootedGoes
<1>3. pc[c] \in Over
  BY <1>2 DEF SessionsInv, SessionOf, Over
<1>4. Undisturbed(c) /\ OnlyOld(c)
  BY <1>1, <1>3, UndisturbedBefore, OnlyOldBefore
<1>5. CASE c \in booted
  <2>1. phase \in Serving \cup {"reading"}
    <3>1. phase # "booting"
      BY <1>5 DEF ClientsInv, ClientOf
    <3>2. QED
      BY <1>1, <3>1, MainGoesOn DEF RowsInv, Serving
  <2>2. Connected(c, c)
    BY <1>4, <1>5, <2>1 DEF ServiceInv, ServiceOf
  <2>3. ASSUME Step(c)
        PROVE  FALSE
    BY <1>3, <2>3 DEF Step, Refused, Start, InitToken, OpenSOSession, LoginSO, InitPIN, LogoutSO,
       CreateRow, CreateRowFails, CreateMetadata, CreateMetadataFails, Undo, OpenUserSession,
       LoginUser, Register, CallFails, Goes, Over
  <2>4. ASSUME NEW d \in Calls, BootRow(d)
        PROVE  c \notin Resolved(d)
    <3>1. c # d
      BY <1>5, <2>4 DEF BootRow, ClientsInv, ClientOf
    <3>2. QED
      BY <1>4, <2>4, <3>1, NotAnothers
  <2>5. c \in Numbers /\ User(c) \in open[c]
    BY <2>2, NoTokenFacts DEF Connected
  <2>6. client'[c] = client[c] /\ User(c) \in open'[c] /\ login'[c] = login[c]
    BY <1>1, <2>3, <2>4, <2>5, ConnectionStays
  <2>7. QED
    BY <2>2, <2>6 DEF Connected
<1>6. CASE c \notin booted
  <2>1. BootRow(c)
    <3>1. ASSUME NEW d \in Calls, Step(d) \/ DeleteSlot(d)
          PROVE  booted' = booted
      BY <3>1 DEF Step, Refused, Start, InitToken, OpenSOSession, LoginSO, InitPIN, LogoutSO,
         CreateRow, CreateRowFails, CreateMetadata, CreateMetadataFails, Undo, OpenUserSession,
         LoginUser, Register, CallFails, DeleteSlot, process
    <3>2. ASSUME \/ ReadRows \/ ReadRowsFails \/ BootEnds \/ Stop \/ UNCHANGED vars
                 \/ \E d \in Calls : SkipRow(d)
          PROVE  booted' = booted
      BY <3>2 DEF ReadRows, ReadRowsFails, BootEnds, SkipRow, Stop, Signal, Drain, ListenerFails,
         CloseClients, Finalize, FinalizeFails, MainGoes, vars
    <3>3. ASSUME NEW d \in Calls, BootRow(d)
          PROVE  booted' = booted \cup {d}
      BY <3>3 DEF BootRow
    <3>4. QED
      BY <1>1, <1>6, <3>1, <3>2, <3>3 DEF Next, Boot
  <2>2. QED
    BY <1>4, <2>1, FindsItsToken
<1>7. QED
  BY <1>5, <1>6

\* The login of a call about to register its client.
LEMMA LoginStays ==
    ASSUME RowsInv, TokensInv, SessionsInv, ClientsInv, ServiceInv, BornTemporary, [Next]_vars,
           NEW c \in Calls, phase' \in Serving, pc'[c] = "register", Undisturbed(c)'
    PROVE  login'[slot'[c]] = "user"
<1>1. ~Restart
  BY DEF Restart, Serving
<1>2. /\ login \in [Numbers -> {"none", "so", "user"}] /\ pc \in [Calls -> Steps]
      /\ slot[c] \in Numbers
  BY TypeParts DEF RowsInv, TypeSession, TypeCalls
<1>3. CASE pc[c] = "register"
  <2>1. phase \in Serving
    BY <1>1, <1>3, MainGoesOn DEF RowsInv, RowOf, Booting, Finished
  <2>2. Undisturbed(c)
    BY <1>1, <1>3, UndisturbedBefore
  <2>3. token[c].at = slot[c] /\ token[c].by = {c}
    BY <1>3, <2>2 DEF TokensInv, TokenOf, Undisturbed, PastInit, InFlight, Finished, Steps
  <2>4. login[slot[c]] = "user"
    BY <1>3, <2>1, <2>2 DEF ServiceInv, ServiceOf
  <2>5. User(c) \in open[slot[c]]
    BY <1>3, <2>1 DEF SessionsInv, SessionOf, WithUser, Library, Serving
  <2>6. ASSUME Step(c)
        PROVE  FALSE
    <3>1. Register(c)
      BY <1>3, <2>6 DEF Step, Refused, Start, InitToken, OpenSOSession, LoginSO, InitPIN,
         LogoutSO, CreateRow, CreateRowFails, CreateMetadata, CreateMetadataFails, Undo,
         OpenUserSession, LoginUser, CallFails, Goes
    <3>2. QED
      BY <1>2, <3>1 DEF Register, Goes
  <2>7. \A d \in Calls : ~BootRow(d)
    BY <2>1 DEF BootRow, Serving
  <2>8. login'[slot[c]] = login[slot[c]]
    BY <1>1, <1>2, <2>3, <2>5, <2>6, <2>7, ConnectionStays
  <2>9. slot'[c] = slot[c]
    BY <1>3, CallsGoOn DEF RowsInv, Onward
  <2>10. QED
    BY <2>4, <2>8, <2>9
<1>4. CASE pc[c] # "register"
  <2>1. Step(c)
    BY <1>1, <1>4, OwnSteps DEF RowsInv
  <2>2. LoginUser(c)
    BY <1>2, <1>4, <2>1 DEF Step, Refused, Start, InitToken, OpenSOSession, LoginSO, InitPIN,
       LogoutSO, CreateRow, CreateRowFails, CreateMetadata, CreateMetadataFails, Undo,
       OpenUserSession, Register, CallFails, Goes, Fails
  <2>3. QED
    BY <1>2, <2>2 DEF LoginUser
<1>5. QED
  BY <1>3, <1>4

\* The client of a call that succeeded.
LEMMA AnsweredServed ==
    ASSUME RowsInv, TokensInv, SessionsInv, ClientsInv, ServiceInv, BornTemporary, [Next]_vars,
           NEW c \in Calls, phase' \in Serving, pc'[c] = "ok", Undisturbed(c)',
           token'[c].at = slot'[c]
    PROVE  Connected(slot[c], c)'
<1>1. ~Restart
  BY DEF Restart, Serving
<1>2. /\ client \in [Numbers -> Calls \cup {NoCall}]
      /\ open \in [Numbers -> SUBSET (Calls \X {"so", "user"})]
      /\ login \in [Numbers -> {"none", "so", "user"}] /\ pc \in [Calls -> Steps]
      /\ slot[c] \in Numbers
  BY TypeParts DEF RowsInv, TypeSession, TypeCalls
<1>3. CASE pc[c] = "ok"
  <2>1. slot'[c] = slot[c] /\ slot[c] \in FreeNumbers
    BY <1>3, OverIsOver DEF Over, RowsInv, RowOf
  <2>2. Undisturbed(c) /\ token[c].at = slot[c]
    BY <1>1, <1>3, <2>1, UndisturbedBefore DEF Over
  <2>3. phase \in Serving
    BY <1>1, <2>1, <2>2, MainGoesOn DEF RowsInv, TokensInv, TokenOf, Booting
  <2>4. Connected(slot[c], c)
    BY <1>3, <2>2, <2>3 DEF ServiceInv, ServiceOf
  <2>5. ASSUME Step(c)
        PROVE  FALSE
    BY <1>3, <2>5 DEF Step, Refused, Start, InitToken, OpenSOSession, LoginSO, InitPIN, LogoutSO,
       CreateRow, CreateRowFails, CreateMetadata, CreateMetadataFails, Undo, OpenUserSession,
       LoginUser, Register, CallFails, Goes
  <2>6. \A d \in Calls : ~BootRow(d)
    BY <2>3 DEF BootRow, Serving
  <2>7. /\ client'[slot[c]] = client[slot[c]] /\ User(c) \in open'[slot[c]]
        /\ login'[slot[c]] = login[slot[c]]
    BY <1>1, <1>2, <2>2, <2>4, <2>5, <2>6, ConnectionStays DEF Connected, Undisturbed
  <2>8. QED
    BY <2>1, <2>4, <2>7 DEF Connected
<1>4. CASE pc[c] # "ok"
  <2>1. Step(c)
    BY <1>1, <1>4, OwnSteps DEF RowsInv
  <2>2. Register(c)
    BY <1>2, <1>4, <2>1 DEF Step, Refused, Start, InitToken, OpenSOSession, LoginSO, InitPIN,
       LogoutSO, CreateRow, CreateRowFails, CreateMetadata, CreateMetadataFails, Undo,
       OpenUserSession, LoginUser, CallFails, Goes, Fails
  <2>3. pc[c] = "register" /\ phase \in Serving /\ slot' = slot
    BY <2>2 DEF Register, Goes, process
  <2>4. Undisturbed(c) /\ token[c].at = token'[c].at
    BY <1>1, <2>3, UndisturbedBefore
  <2>5. login[slot[c]] = "user"
    BY <2>3, <2>4 DEF ServiceInv, ServiceOf
  <2>6. User(c) \in open[slot[c]]
    BY <2>3 DEF SessionsInv, SessionOf, WithUser, Library, Serving
  <2>7. client[slot[c]] = NoCall
    <3>1. ASSUME NEW d \in Calls, client[slot[c]] = d
          PROVE  FALSE
      <4>1. slot[c] \in FreeNumbers
        BY <2>3 DEF RowsInv, RowOf, InFlight, Finished, Steps
      <4>2. pc[d] = "ok" /\ Touched(d, slot[c])
        BY <1>2, <3>1, <4>1 DEF ClientsInv, ClientOf
      <4>3. d \in token[c].by
        BY <2>3, <2>4, <4>2 DEF Touched, TokensAt
      <4>4. QED
        BY <2>3, <2>4, <4>2, <4>3 DEF Undisturbed
    <3>2. QED
      BY <1>2, <3>1
  <2>8. client' = [client EXCEPT ![slot[c]] = c] /\ open' = open /\ login' = login
    BY <2>2, <2>7 DEF Register, RegisterClient, session
  <2>9. QED
    BY <1>2, <2>3, <2>5, <2>6, <2>8 DEF Connected
<1>5. QED
  BY <1>3, <1>4

\* Who is served stays served.
LEMMA ServiceStep ==
    ASSUME RowsInv, TokensInv, SessionsInv, ClientsInv, ServiceInv, [Next]_vars
    PROVE  ServiceInv'
<1>1. ASSUME BornTemporary, NEW c \in Calls
      PROVE  ServiceOf(c)'
  BY <1>1, BootedServed, LoginStays, AnsweredServed DEF ServiceOf
<1>2. QED
  BY <1>1 DEF ServiceInv

\* At all times.
LEMMA ServiceAlways == Spec => []ServiceInv
<1>1. RowsInv /\ TokensInv /\ SessionsInv /\ ClientsInv /\ ServiceInv /\ [Next]_vars
         => ServiceInv'
  BY ServiceStep
<1>2. QED
  BY ServiceInit, RowsAlways, TokensAlways, SessionsAlways, ClientsAlways, <1>1, PTL DEF Spec

\* All five together.
LEMMA Invariant == Spec => []IInv
<1>1. RowsInv /\ TokensInv /\ SessionsInv /\ ClientsInv /\ ServiceInv => IInv
  BY DEF IInv
<1>2. QED
  BY RowsAlways, TokensAlways, SessionsAlways, ClientsAlways, ServiceAlways, <1>1, PTL

\* While the server serves, every slot that a call succeeded with, or whose row Bootstrap went
\* through without a failing call, has its client on its own token and logged in: though
\* Bootstrap may find the row with the number of a slot that is gone, as rows are born with
\* is_temporary_id set, and though other calls fail on other slots meanwhile.
THEOREM SlotsAlwaysServed ==
    ASSUME BornTemporary
    PROVE  Spec => []SlotsAreServed
<1>1. ASSUME IInv
      PROVE  SlotsAreServed
  <2>1. ASSUME phase \in Serving, NEW c \in Calls, Undisturbed(c), OnlyOne(c), Promised(c)
        PROVE  Served(c)
    <3>1. OnlyOld(c)
      BY <2>1 DEF OnlyOne, OnlyOld
    <3>2. PICK n \in Numbers : token[c].at = n /\ Connected(n, c)
      <4>1. CASE c \in booted
        <5>1. token[c].at = c
          BY <1>1, <2>1, <4>1 DEF IInv, TokensInv, TokenOf, ClientsInv, ClientOf, Undisturbed
        <5>2. Connected(c, c)
          BY <1>1, <2>1, <3>1, <4>1 DEF IInv, ServiceInv, ServiceOf
        <5>3. QED
          BY <5>1, <5>2, NoTokenFacts
      <4>2. CASE pc[c] = "ok" /\ token[c].at = slot[c]
        <5>1. Connected(slot[c], c)
          BY <1>1, <2>1, <4>2 DEF IInv, ServiceInv, ServiceOf
        <5>2. slot[c] \in Numbers
          BY <1>1, TypeParts DEF IInv, RowsInv, TypeCalls
        <5>3. QED
          BY <4>2, <5>1, <5>2
      <4>3. QED
        BY <2>1, <4>1, <4>2 DEF Promised
    <3>3. TokensAt(n) = {c}
      BY <1>1, <2>1, <3>2 DEF IInv, TokensInv, OnePerSlot, TokensAt, Undisturbed
    <3>4. QED
      BY <3>2, <3>3 DEF Served, Connected
  <2>2. QED
    BY <2>1 DEF SlotsAreServed, Serving
<1>2. QED
  BY Invariant, <1>1, PTL
=============================================================================
