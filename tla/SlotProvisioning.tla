-------------------------- MODULE SlotProvisioning --------------------------
(* How a tenant gets a token and how the server finds it again: slotService.InitializeSlot, *)
(* which writes to two stores (the token and the hsm_slots row with its PIN), and           *)
(* HSMBootstrapper.Bootstrap, which turns the rows back into clients after a restart; and   *)
(* the end of main(), which closes the clients and the library under the calls of a drain   *)
(* that timed out.                                                                          *)
(*                                                                                          *)
(* A call of InitializeSlot stands for everything it creates: its row, its PIN, its client  *)
(* and, when it is the first to initialise it, its token. SoftHSM gives a new token the     *)
(* number of the free slot it was made in and, from the next start of the library on, a     *)
(* number of its own: the name of the token is that number.                                 *)
EXTENDS Naturals, FiniteSets

CONSTANTS Calls,        \* calls of InitializeSlot, each with the row and the PIN it makes up
          Seeds,        \* the calls whose slot exists before the first start
          Tenants,      \* tenants, which stand for the token label derived from them
          FreeNumbers,  \* numbers SoftHSM gives to a slot without a token
          NoCall,       \* no client, no PIN
          BornTemporary,\* the database's default for hsm_slots.is_temporary_id
          MaxRestarts   \* bound: crashes and restarts of the server

ASSUME ProvisioningAssumption ==
    /\ Seeds \subseteq Calls /\ Seeds # {} /\ IsFiniteSet(Calls)
    /\ FreeNumbers \cap Calls = {} /\ NoCall \notin Calls \cup FreeNumbers \cup Tenants
    /\ BornTemporary \in BOOLEAN /\ MaxRestarts \in Nat

VARIABLES
    token,    \* token[k]: the token that call k created; it has no number before it is
              \* created and after it is deleted                             (SoftHSM, on disk)
    row,      \* row[c]: the hsm_slots row of call c, "none", "half" (no key_metadata_id), "whole"
    number,   \* number[c], temporary[c]: slot_number and is_temporary_id of the row
    temporary,
    tenant,   \* tenant[c]: whose slot call c initialises
    pc,       \* pc[c]: the statement call c is at
    slot,     \* slot[c]: the slot number call c took from GetAvailableSlots
    phase,    \* where main() is: from "booting" to "serving", or "dead", and from "draining"
              \* through "down" (runServer returned) and "closing" (in CloseAll) to the end
    accepts,  \* requests still come in
    todo,     \* rows Bootstrap has still to turn into clients
    booted,   \* rows whose initializeSlot met no failing call in this process
    client,   \* HSMManager.clients: the call whose PIN made the client, by slot number
    open,     \* open[n]: the sessions on slot n
    login,    \* login[n]: who is logged in on the token in slot n
    lost,     \* slot numbers whose token was deleted behind the library's back
    restarts

vars == <<token, row, number, temporary, tenant, pc, slot, phase, accepts, todo, booted, client,
          open, login, lost, restarts>>
store == <<row, number, temporary>>
session == <<open, login>>
process == <<phase, accepts, todo, booted>>

NoToken == [at |-> NoCall, label |-> NoCall, pin |-> NoCall, by |-> {}]
Numbers == FreeNumbers \cup Calls
Steps == {"idle", "init", "open", "so", "pin", "logout", "row", "meta", "undo", "client", "user",
          "register", "ok", "failed", "gone"}
Finished == {"idle", "ok", "failed", "gone"}

\* Handlers run, until the process is gone; and the library answers them, until C_Finalize:
\* GetOrInitPKCS11Context then returns no context and no error, and its callers panic.
Alive == phase \in {"serving", "draining", "down", "closing", "finalized", "kept"}
Library == phase # "finalized"

TokensAt(n) == {k \in Calls : token[k].at = n}
FreeSlots == {f \in FreeNumbers : TokensAt(f) = {} /\ f \notin lost}

-----------------------------------------------------------------------------
(* The login of a token is the process's, not the session's: closing the last session or     *)
(* logging out of any of them logs all of them out.                                           *)

OpenSession(n, s) == open' = [open EXCEPT ![n] = @ \cup {s}] /\ UNCHANGED login
CloseSession(n, s) ==
    /\ open' = [open EXCEPT ![n] = @ \ {s}]
    /\ login' = IF open[n] \subseteq {s} THEN [login EXCEPT ![n] = "none"] ELSE login

SO(c) == <<c, "so">>
User(c) == <<c, "user">>

\* NewSoftHSMClient logs in only when the token is not already logged in, and whoever logged
\* in before: the PIN is not looked at then.
LogsIn(n, c) == \E k \in TokensAt(n) : login[n] = "user" \/ (login[n] = "none" /\ token[k].pin = c)

\* RegisterClient closes the client it replaces, which logs the token out for everyone.
RegisterClient(n, c) ==
    /\ client' = [client EXCEPT ![n] = c]
    /\ IF client[n] = NoCall
       THEN UNCHANGED session
       ELSE /\ open' = [open EXCEPT ![n] = @ \ {User(client[n])}]
            /\ login' = [login EXCEPT ![n] = "none"]

-----------------------------------------------------------------------------
Fails(c) == pc' = [pc EXCEPT ![c] = "failed"]
Goes(c, from, to) == Alive /\ pc[c] = from /\ pc' = [pc EXCEPT ![c] = to]

\* No such tenant, the library does not answer, or it lists no free slot (which panics).
Refused(c) ==
    /\ Goes(c, "idle", "failed")
    /\ accepts
    /\ UNCHANGED <<token, store, tenant, slot, process, client, session, lost, restarts>>

\* InitializeSlot finds the tenant and takes the first slot without a token.
Start(c) ==
    /\ Goes(c, "idle", "init")
    /\ accepts /\ Library
    /\ FreeSlots # {}
    /\ slot' = [slot EXCEPT ![c] = CHOOSE f \in FreeSlots : TRUE]
    /\ \E t \in Tenants : tenant' = [tenant EXCEPT ![c] = t]
    /\ UNCHANGED <<token, store, process, client, session, lost, restarts>>

\* C_InitToken: refused while a session is open, and otherwise a new token or, when another
\* call was faster, that call's token wiped and labelled again.
InitToken(c) ==
    LET n == slot[c] IN
    /\ Goes(c, "init", "open")
    /\ Library
    /\ open[n] = {} /\ n \notin lost
    /\ token' = IF TokensAt(n) = {}
                THEN [token EXCEPT ![c] = [at |-> n, label |-> tenant[c], pin |-> NoCall,
                                           by |-> {c}]]
                ELSE LET k == CHOOSE k \in TokensAt(n) : TRUE
                     IN [token EXCEPT ![k].label = tenant[c], ![k].pin = NoCall,
                                      ![k].by = @ \cup {c}]
    /\ UNCHANGED <<store, tenant, slot, process, client, session, lost, restarts>>

OpenSOSession(c) ==
    /\ Goes(c, "open", "so")
    /\ Library
    /\ TokensAt(slot[c]) # {}
    /\ OpenSession(slot[c], SO(c))
    /\ UNCHANGED <<token, store, tenant, slot, process, client, lost, restarts>>

LoginSO(c) ==
    /\ Goes(c, "so", "pin")
    /\ Library
    /\ login[slot[c]] = "none" /\ TokensAt(slot[c]) # {}
    /\ login' = [login EXCEPT ![slot[c]] = "so"]
    /\ UNCHANGED <<token, store, tenant, slot, process, client, open, lost, restarts>>

\* Slip: the answer of C_InitPIN is not looked at.
InitPINUnchecked(c) ==
    /\ Goes(c, "pin", "logout")
    /\ UNCHANGED <<token, store, tenant, slot, process, client, session, lost, restarts>>

InitPIN(c) ==
    /\ Goes(c, "pin", "logout")
    /\ Library
    /\ login[slot[c]] = "so"
    /\ \E k \in TokensAt(slot[c]) : token' = [token EXCEPT ![k].pin = c]
    /\ UNCHANGED <<store, tenant, slot, process, client, session, lost, restarts>>

LogoutSO(c) ==
    /\ Goes(c, "logout", "row")
    /\ login' = [login EXCEPT ![slot[c]] = "none"]
    /\ UNCHANGED <<token, store, tenant, slot, process, client, open, lost, restarts>>

\* Slip: the row is inserted without its slot number.
CreateRowNumberless(c) ==
    /\ Goes(c, "row", "meta")
    /\ row' = [row EXCEPT ![c] = "half"]
    /\ number' = [number EXCEPT ![c] = NoCall]
    /\ temporary' = [temporary EXCEPT ![c] = BornTemporary]
    /\ UNCHANGED <<token, tenant, slot, process, client, session, lost, restarts>>

\* CreateSlot inserts the row with a NULL key_metadata_id.
CreateRow(c) ==
    /\ Goes(c, "row", "meta")
    /\ row' = [row EXCEPT ![c] = "half"]
    /\ number' = [number EXCEPT ![c] = slot[c]]
    /\ temporary' = [temporary EXCEPT ![c] = BornTemporary]
    /\ UNCHANGED <<token, tenant, slot, process, client, session, lost, restarts>>

\* The insert fails, or went through and its answer was lost: the cleanup handler does not
\* know of the row yet.
CreateRowFails(c) ==
    /\ Goes(c, "row", "failed")
    /\ row' \in {row, [row EXCEPT ![c] = "half"]}
    /\ number' = [number EXCEPT ![c] = slot[c]]
    /\ temporary' = [temporary EXCEPT ![c] = BornTemporary]
    /\ CloseSession(slot[c], SO(c))
    /\ UNCHANGED <<token, tenant, slot, process, client, lost, restarts>>

\* Slip: the cleanup handler runs on success too.
CreateMetadataCleansUp(c) ==
    /\ Goes(c, "meta", "client")
    /\ row' = [row EXCEPT ![c] = "none"]
    /\ CloseSession(slot[c], SO(c))
    /\ UNCHANGED <<token, number, temporary, tenant, slot, process, client, lost, restarts>>

\* CreateMetadata stores the wrapped key and points the row at it, in one transaction.
\* initializeSlotInternal then returns and closes its session.
CreateMetadata(c) ==
    /\ Goes(c, "meta", "client")
    /\ row' = [row EXCEPT ![c] = "whole"]
    /\ CloseSession(slot[c], SO(c))
    /\ UNCHANGED <<token, number, temporary, tenant, slot, process, client, lost, restarts>>

\* The transaction fails, or its commit went through and the answer was lost.
CreateMetadataFails(c) ==
    /\ Goes(c, "meta", "undo")
    /\ row' \in {row, [row EXCEPT ![c] = "whole"]}
    /\ UNCHANGED <<token, number, temporary, tenant, slot, process, client, session, lost,
                   restarts>>

DeleteRow(c) == row' = [row EXCEPT ![c] = "none"]

\* The row is deleted, twice over (by createHSMSlot and by its cleanup handler); the errors of
\* both are dropped.
Undo(c) ==
    /\ Alive /\ pc[c] = "undo"
    /\ DeleteRow(c) \/ UNCHANGED row
    /\ CloseSession(slot[c], SO(c))
    /\ Fails(c)
    /\ UNCHANGED <<token, number, temporary, tenant, slot, process, client, lost, restarts>>

OpenUserSession(c) ==
    /\ Goes(c, "client", "user")
    /\ Library
    /\ TokensAt(slot[c]) # {}
    /\ OpenSession(slot[c], User(c))
    /\ UNCHANGED <<token, store, tenant, slot, process, client, lost, restarts>>

LoginUser(c) ==
    /\ Goes(c, "user", "register")
    /\ Library
    /\ LogsIn(slot[c], c)
    /\ login' = [login EXCEPT ![slot[c]] = "user"]
    /\ UNCHANGED <<token, store, tenant, slot, process, client, open, lost, restarts>>

\* CloseAll holds the manager's mutex until it has finalized the library; after that the new
\* client, whose session is gone, finds an empty map.
Register(c) ==
    /\ Goes(c, "register", "ok")
    /\ phase # "closing"
    /\ RegisterClient(slot[c], c)
    /\ UNCHANGED <<token, store, tenant, slot, process, lost, restarts>>

\* Any other of the calls on the library fails, or the master key: the session is closed, the token
\* stays as it is, and so does the row.
CallFails(c) ==
    /\ Alive
    /\ pc[c] \in {"init", "open", "so", "pin", "row", "client", "user"}
    /\ Fails(c)
    /\ open' = [open EXCEPT ![slot[c]] = @ \ {SO(c), User(c)}]
    /\ login' = IF open'[slot[c]] = {} THEN [login EXCEPT ![slot[c]] = "none"] ELSE login
    /\ UNCHANGED <<token, store, tenant, slot, process, client, lost, restarts>>

\* DeleteSlot runs softhsm2-util, which removes the token or does not, and reports success.
\* The row and the registered client stay.
DeleteSlot(k) ==
    /\ Alive
    /\ token[k].at # NoCall
    /\ token' = [token EXCEPT ![k].at = NoCall]
    /\ lost' = lost \cup {token[k].at}
    /\ UNCHANGED <<store, tenant, pc, slot, process, client, session, restarts>>

-----------------------------------------------------------------------------
(* The server's start.                                                                         *)

\* GetAllSlots: a NULL key_metadata_id cannot be scanned into a string, and one such row fails
\* the whole call, and with it the start; so does the database.
ReadRows ==
    /\ phase = "booting"
    /\ phase' = "reading"
    /\ \A c \in Calls : row[c] # "half"
    /\ todo' = {c \in Calls : row[c] = "whole"}
    /\ UNCHANGED <<token, store, tenant, pc, slot, accepts, booted, client, session, lost,
                   restarts>>

ReadRowsFails ==
    /\ phase = "booting"
    /\ phase' = "dead"
    /\ UNCHANGED <<token, store, tenant, pc, slot, accepts, todo, booted, client, session, lost,
                   restarts>>

\* Slip: the number in the row is taken for the slot, though it may be temporary.
ResolvedAsStored(c) == {number[c]}

\* The slot a row means: the one with the token of that label when the number is temporary
\* and there is one, the number in the row otherwise.
Resolved(c) ==
    LET labelled == {n \in Numbers : \E k \in TokensAt(n) : token[k].label = tenant[c]}
    IN IF temporary[c] /\ labelled # {} THEN labelled ELSE {number[c]}

UpdateSlotNumber(c, n) ==
    /\ number' = [number EXCEPT ![c] = n]
    /\ temporary' = [temporary EXCEPT ![c] = FALSE]

\* initializeSlot stores the number it found (and ignores the error when that fails), logs in
\* and registers the client.
BootRow(c) ==
    /\ phase = "reading" /\ c \in todo
    /\ todo' = todo \ {c}
    /\ booted' = booted \cup {c}
    /\ \E n \in Resolved(c) :
          /\ \/ /\ temporary[c] /\ \E k \in TokensAt(n) : token[k].label = tenant[c]
                /\ UpdateSlotNumber(c, n)
             \/ UNCHANGED <<number, temporary>>
          /\ IF LogsIn(n, c)
             THEN /\ client' = [client EXCEPT ![n] = c]
                  /\ open' = [open EXCEPT ![n] = {User(c)}]
                  /\ login' = [login EXCEPT ![n] = IF client[n] = NoCall THEN "user" ELSE "none"]
             ELSE UNCHANGED <<client, session>>
    /\ UNCHANGED <<token, row, tenant, pc, slot, phase, accepts, lost, restarts>>

\* The metadata, the master key, the decryption or the library fails: the row is skipped.
SkipRow(c) ==
    /\ phase = "reading" /\ c \in todo
    /\ todo' = todo \ {c}
    /\ UNCHANGED <<token, store, tenant, pc, slot, phase, accepts, booted, client, session, lost,
                   restarts>>

\* Without a single client Bootstrap fails and main exits.
BootEnds ==
    /\ phase = "reading" /\ todo = {}
    /\ phase' = IF \A n \in Numbers : client[n] = NoCall THEN "dead" ELSE "serving"
    /\ accepts' = (phase' = "serving")
    /\ UNCHANGED <<token, store, tenant, pc, slot, todo, booted, client, session, lost, restarts>>

-----------------------------------------------------------------------------
(* The server's end.                                                                           *)

MainGoes(from, to) ==
    /\ phase = from
    /\ phase' = to
    /\ UNCHANGED <<token, store, tenant, pc, slot, todo, booted, lost, restarts>>

Signal ==
    /\ MainGoes("serving", "draining")
    /\ accepts' = FALSE
    /\ UNCHANGED <<client, session>>

\* srv.Shutdown returns once the calls have, or after its 30 s.
Drain ==
    /\ MainGoes("draining", "down")
    /\ UNCHANGED <<accepts, client, session>>

\* Nobody waits for the calls then, and connections that are open may bring new ones.
ListenerFails ==
    /\ MainGoes("serving", "down")
    /\ UNCHANGED <<accepts, client, session>>

\* Slip: the map is emptied and its clients are not closed.
ForgetClients ==
    /\ MainGoes("down", "closing")
    /\ client' = [n \in Numbers |-> NoCall]
    /\ UNCHANGED <<accepts, session>>

\* CloseAll closes every client it finds in the map and empties it.
CloseClients ==
    /\ MainGoes("down", "closing")
    /\ client' = [n \in Numbers |-> NoCall]
    /\ open' = [n \in Numbers |-> open[n] \ {User(client[n])}]
    /\ login' = [n \in Numbers |-> IF client[n] = NoCall THEN login[n] ELSE "none"]
    /\ UNCHANGED accepts

\* C_Finalize ends whatever session is left.
Finalize ==
    /\ MainGoes("closing", "finalized")
    /\ open' = [n \in Numbers |-> {}]
    /\ login' = [n \in Numbers |-> "none"]
    /\ UNCHANGED <<accepts, client>>

FinalizeFails ==
    /\ MainGoes("closing", "kept")
    /\ UNCHANGED <<accepts, client, session>>

\* The process ends, at any moment, and is started again: the library gives every token the
\* number of its own.
Restart ==
    /\ restarts < MaxRestarts
    /\ restarts' = restarts + 1
    /\ phase' = "booting" /\ accepts' = FALSE
    /\ todo' = {} /\ booted' = {} /\ lost' = {}
    /\ client' = [n \in Numbers |-> NoCall]
    /\ open' = [n \in Numbers |-> {}]
    /\ login' = [n \in Numbers |-> "none"]
    /\ pc' = [c \in Calls |-> IF pc[c] \in Finished THEN pc[c] ELSE "gone"]
    /\ token' = [k \in Calls |-> IF token[k].at = NoCall THEN token[k]
                                 ELSE [token[k] EXCEPT !.at = k]]
    /\ UNCHANGED <<store, tenant, slot>>

-----------------------------------------------------------------------------
Init ==
    /\ \E t \in Tenants : tenant = [c \in Calls |-> t]
    /\ token = [c \in Calls |-> IF c \in Seeds
                                THEN [at |-> c, label |-> tenant[c], pin |-> c, by |-> {c}]
                                ELSE NoToken]
    /\ row = [c \in Calls |-> IF c \in Seeds THEN "whole" ELSE "none"]
    /\ number = [c \in Calls |-> c]
    /\ temporary = [c \in Calls |-> FALSE]
    /\ pc = [c \in Calls |-> IF c \in Seeds THEN "gone" ELSE "idle"]
    /\ slot = [c \in Calls |-> c]
    /\ phase = "booting" /\ accepts = FALSE /\ todo = {} /\ booted = {}
    /\ client = [n \in Numbers |-> NoCall]
    /\ open = [n \in Numbers |-> {}]
    /\ login = [n \in Numbers |-> "none"]
    /\ lost = {} /\ restarts = 0

Step(c) ==
    \/ Refused(c) \/ Start(c) \/ InitToken(c) \/ OpenSOSession(c) \/ LoginSO(c) \/ InitPIN(c)
    \/ LogoutSO(c) \/ CreateRow(c) \/ CreateRowFails(c) \/ CreateMetadata(c)
    \/ CreateMetadataFails(c) \/ Undo(c) \/ OpenUserSession(c) \/ LoginUser(c) \/ Register(c)
    \/ CallFails(c)

Boot == ReadRows \/ ReadRowsFails \/ BootEnds \/ \E c \in Calls : BootRow(c) \/ SkipRow(c)

Stop == Signal \/ Drain \/ ListenerFails \/ CloseClients \/ Finalize \/ FinalizeFails

Next == Boot \/ Stop \/ Restart \/ \E c \in Calls : Step(c) \/ DeleteSlot(c)

Spec == Init /\ [][Next]_vars

-----------------------------------------------------------------------------
TypeOK ==
    /\ token \in [Calls -> [at : Numbers \cup {NoCall}, label : Tenants \cup {NoCall},
                            pin : Calls \cup {NoCall}, by : SUBSET Calls]]
    /\ row \in [Calls -> {"none", "half", "whole"}]
    /\ number \in [Calls -> Numbers] /\ temporary \in [Calls -> BOOLEAN]
    /\ tenant \in [Calls -> Tenants] /\ slot \in [Calls -> Numbers] /\ pc \in [Calls -> Steps]
    /\ phase \in {"booting", "reading", "serving", "dead", "draining", "down", "closing",
                  "finalized", "kept"}
    /\ accepts \in BOOLEAN
    /\ todo \subseteq Calls /\ booted \subseteq Calls
    /\ client \in [Numbers -> Calls \cup {NoCall}]
    /\ open \in [Numbers -> SUBSET (Calls \X {"so", "user"})]
    /\ login \in [Numbers -> {"none", "so", "user"}]
    /\ lost \subseteq Numbers
    /\ restarts \in 0 .. MaxRestarts

\* No other call has touched the token of row c.
Undisturbed(c) == row[c] = "whole" /\ token[c].at # NoCall /\ token[c].by = {c}

\* There has been no other token of the tenant, and there is no other row.
OnlyOne(c) ==
    \A k \in Calls \ {c} :
        token[k].label # tenant[c] /\ (row[k] = "none" \/ tenant[k] # tenant[c])

\* The PIN that a row keeps (encrypted, and found nowhere else) opens the token of its tenant,
\* whatever failed or crashed on the way and for as long as no other call initialised the same
\* slot: the token gets its PIN before the row says so.
RowOpensToken ==
    \A c \in Calls : Undisturbed(c) => token[c].pin = c /\ token[c].label = tenant[c]

\* The tenant of row c has a client, on its own token and logged in.
Served(c) ==
    \E n \in Numbers : /\ client[n] = c /\ TokensAt(n) = {c}
                       /\ User(c) \in open[n] /\ login[n] = "user"

\* Bootstrap went through the row, or the call succeeded since.
Promised(c) == c \in booted \/ (pc[c] = "ok" /\ token[c].at = slot[c])

\* While the server serves, and until CloseAll, every slot whose call succeeded or whose row
\* Bootstrap went through without a failing call has its client, on its own token and logged in,
\* though the token has changed its number since, other calls fail around it and its row may
\* still hold the old number: as long as the tenant was initialised only once and alone on the
\* slot.
SlotsAreServed ==
    phase \in {"serving", "draining", "down"} =>
        \A c \in Calls : Undisturbed(c) /\ OnlyOne(c) /\ Promised(c) => Served(c)

\* A session is open only for a call in flight or for the client in the map, and a token is
\* logged in only while a session is: no failing call, replaced client or shutdown leaves one
\* behind, so that a shutdown that has waited for the calls finalizes an idle library.
SessionsAreOwned ==
    \A n \in Numbers :
        /\ \A s \in open[n] : \E c \in Calls :
              \/ s = SO(c) /\ slot[c] = n /\ pc[c] \in {"so", "pin", "logout", "row", "meta", "undo"}
              \/ s = User(c) /\ slot[c] = n /\ pc[c] \in {"user", "register"}
              \/ s = User(c) /\ client[n] = c
        /\ login[n] # "none" => open[n] # {}

\* A slot answered for with success keeps its whole row from then on; and a row never turns
\* back from whole to half.
AnsweredRowsStay ==
    [][\A c \in Calls : /\ pc[c] = "ok" => row'[c] = "whole"
                        /\ row[c] = "whole" => row'[c] # "half"]_vars

\* The row and its metadata are stored together (slot_service.go:237): a restart never finds
\* a row without its key_metadata_id.
RowsAreWhole == phase = "booting" => \A c \in Calls : row[c] # "half"
=============================================================================
