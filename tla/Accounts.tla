------------------------------ MODULE Accounts ------------------------------
(***************************************************************************)
(* Who may come in (backend/apps/accounts, admin_panel): a small office of *)
(* a tenant, which its big office blocks, unblocks and edits, and the      *)
(* tenant, which the administrator stops and lets in.                      *)
(*                                                                         *)
(* Every operation on the office loads its row and then saves it.  All of  *)
(* them save only the column they are about, so that the load does not     *)
(* matter, but for the edit: it saves the whole row as it was loaded.  The *)
(* column watched is is_blocked; is_suspended and password are written by  *)
(* operations of the same form.                                            *)
(***************************************************************************)

CONSTANT Editors  \* requests that edit the office

VARIABLES
    tenant_active,  \* Tenant.is_active
    blocked,        \* User.is_blocked
    editing         \* the edits in flight: the column as loaded, and whether it changed since

accountVars == <<tenant_active, blocked, editing>>

NoEdit == [pc |-> "idle"]

AccountsTypeOK ==
    /\ tenant_active \in BOOLEAN
    /\ blocked \in BOOLEAN
    /\ editing \in [Editors -> {NoEdit} \cup
                                 [pc : {"loaded"}, blocked : BOOLEAN, missed : BOOLEAN]]

(* A tenant that registered itself waits for the administrator; one that   *)
(* the administrator created is active.                                    *)
InitAccounts ==
    /\ tenant_active \in BOOLEAN
    /\ blocked = FALSE
    /\ editing = [e \in Editors |-> NoEdit]

(* The condition on which a login, a request or a socket is refused.       *)
Barred == blocked \/ ~ tenant_active

(* The column is saved: the edits in E that had loaded another value of it *)
(* have missed that.                                                       *)
Save(v, E) ==
    /\ blocked' = v
    /\ editing' = [e \in Editors |->
                     IF e \notin E THEN NoEdit
                     ELSE IF editing[e].pc = "loaded" /\ v # blocked
                       THEN [editing[e] EXCEPT !.missed = TRUE] ELSE editing[e]]
    /\ UNCHANGED tenant_active

(* save(update_fields=["is_blocked"]).                                     *)
SaveBlocked(v) == tenant_active /\ Save(v, Editors)

block == SaveBlocked(TRUE)
unblock == SaveBlocked(FALSE)

(* partial_update: the row is loaded, the request validated, the row saved *)
(* with all its columns.                                                   *)
LoadEdit(e) ==
    /\ tenant_active /\ editing[e] = NoEdit
    /\ editing' = [editing EXCEPT ![e] = [pc |-> "loaded", blocked |-> blocked,
                                          missed |-> FALSE]]
    /\ UNCHANGED <<tenant_active, blocked>>

SaveEdit(e) ==
    /\ editing[e].pc = "loaded"
    /\ Save(editing[e].blocked, Editors \ {e})

(* Invalid input, or a crash.                                              *)
DropEdit(e) ==
    /\ editing[e].pc = "loaded"
    /\ editing' = [editing EXCEPT ![e] = NoEdit]
    /\ UNCHANGED <<tenant_active, blocked>>

block_big_office ==
    /\ tenant_active' = FALSE
    /\ UNCHANGED <<blocked, editing>>

(* (Bug: the offices of the tenant are let in with it.)                    *)
UnblockAll ==
    /\ tenant_active' = TRUE /\ blocked' = FALSE
    /\ UNCHANGED editing

unblock_big_office ==
    /\ tenant_active' = TRUE
    /\ UNCHANGED <<blocked, editing>>

AccountStep ==
    \/ block \/ unblock
    \/ \E e \in Editors : LoadEdit(e) \/ SaveEdit(e) \/ DropEdit(e)
    \/ block_big_office \/ unblock_big_office

-----------------------------------------------------------------------------
(* A blocked office stays blocked, and one that is let in stays in, until  *)
(* its big office asks otherwise - or saves an edit of the office that had *)
(* loaded the row before that, and undoes what it has missed.              *)
BlockKept ==
    [][ \/ blocked' = blocked
        \/ block \/ unblock
        \/ \E e \in Editors : SaveEdit(e) /\ editing[e].missed
      ]_accountVars
=============================================================================
