----------------------------- MODULE RpcCalls -----------------------------
(***************************************************************************)
(* One remote call from end to end: a client (through its Hermes classes), *)
(* a proxy or a daemon (through Margo) fills a request, Mercury carries    *)
(* the struct's fields in order, the receiver finds the handler registered *)
(* under the RPC's name and reads the fields with the struct registered    *)
(* there, the handler fills the answer, and the caller reads it back.      *)
(*                                                                         *)
(* A value is an integer; strings and bulk regions are numbered too, with  *)
(* Null for the null pointer.  32-bit and 64-bit integers are scaled down  *)
(* to moduli M32 < M64, so that every conversion between the two widths    *)
(* and between signed and unsigned happens at the boundary values.         *)
(***************************************************************************)
EXTENDS RpcTypes, FiniteSets, TLC

CONSTANTS M32, M64

Null == -1

(* C++ integer conversion to type t; the others travel unchanged.          *)
Signed(x, m) == ((x + m \div 2) % m) - m \div 2
Convert(t, x) ==
  CASE t = "i32" -> Signed(x, M32)
    [] t = "u32" -> x % M32
    [] t = "i64" -> Signed(x, M64)
    [] t = "u64" -> x % M64
    [] t = "bool" -> IF x = 0 THEN 0 ELSE 1
    [] OTHER -> x

-----------------------------------------------------------------------------
(* Who may send what to whom.  A registration names the RPC and its two    *)
(* structs.                                                                *)

Reg(name, in, out) == [name |-> name, in |-> in, out |-> out]

(* The daemon's handlers for clients and other daemons.                    *)
register_server_rpcs ==
  { Reg("fs_config", hg_void_t, rpc_config_out_t),
    Reg("create", rpc_mk_node_in_t, rpc_err_out_t),
    Reg("stat", rpc_path_only_in_t, rpc_stat_out_t),
    Reg("decr_size", rpc_trunc_in_t, rpc_err_out_t),
    Reg("remove_metadata", rpc_rm_node_in_t, rpc_rm_metadata_out_t),
    Reg("remove_data", rpc_rm_node_in_t, rpc_err_out_t),
    Reg("update_metadentry", rpc_update_metadentry_in_t, rpc_err_out_t),
    Reg("get_metadentry_size", rpc_path_only_in_t,
        rpc_get_metadentry_size_out_t),
    Reg("update_metadentry_size", rpc_update_metadentry_size_in_t,
        rpc_update_metadentry_size_out_t),
    Reg("get_dirents", rpc_get_dirents_in_t, rpc_get_dirents_out_t),
    Reg("get_dirents_extended", rpc_get_dirents_in_t, rpc_get_dirents_out_t),
    Reg("mk_symlink", rpc_mk_symlink_in_t, rpc_err_out_t),
    Reg("write", rpc_write_data_in_t, rpc_data_out_t),
    Reg("read", rpc_read_data_in_t, rpc_data_out_t),
    Reg("truncate", rpc_trunc_in_t, rpc_err_out_t),
    Reg("get_chunk_stat", rpc_chunk_stat_in_t, rpc_chunk_stat_out_t),
    Reg("expand_start", rpc_expand_start_in_t, rpc_err_out_t),
    Reg("expand_status", hg_void_t, rpc_err_out_t),
    Reg("expand_finalize", hg_void_t, rpc_err_out_t),
    Reg("migrate_metadata", rpc_migrate_metadata_in_t, rpc_err_out_t) }

(* Mutant: the proxy server registers the write without its own struct.    *)
register_proxy_server_rpcs_shared ==
  { Reg("get_chunk_stat", rpc_chunk_stat_in_t, rpc_chunk_stat_out_t),
    Reg("proxy_daemon_write", rpc_write_data_in_t, rpc_data_out_t) }

(* The daemon's second server, for proxies.                                *)
register_proxy_server_rpcs ==
  { Reg("get_chunk_stat", rpc_chunk_stat_in_t, rpc_chunk_stat_out_t),
    Reg("create", rpc_mk_node_in_t, rpc_err_out_t),
    Reg("stat", rpc_path_only_in_t, rpc_stat_out_t),
    Reg("remove_metadata", rpc_rm_node_in_t, rpc_rm_metadata_out_t),
    Reg("decr_size", rpc_trunc_in_t, rpc_err_out_t),
    Reg("remove_data", rpc_rm_node_in_t, rpc_err_out_t),
    Reg("get_metadentry_size", rpc_path_only_in_t,
        rpc_get_metadentry_size_out_t),
    Reg("update_metadentry_size", rpc_update_metadentry_size_in_t,
        rpc_update_metadentry_size_out_t),
    Reg("get_dirents_extended", rpc_get_dirents_in_t, rpc_get_dirents_out_t),
    Reg("truncate", rpc_trunc_in_t, rpc_err_out_t),
    Reg("proxy_daemon_write", rpc_proxy_daemon_write_in_t, rpc_data_out_t),
    Reg("proxy_daemon_read", rpc_proxy_daemon_read_in_t, rpc_data_out_t) }

(* The proxy's handlers for clients.                                       *)
register_server_ipcs ==
  { Reg("client_proxy_write", rpc_client_proxy_write_in_t, rpc_data_out_t),
    Reg("client_proxy_read", rpc_client_proxy_read_in_t, rpc_data_out_t),
    Reg("client_proxy_truncate", rpc_client_proxy_trunc_in_t, rpc_err_out_t),
    Reg("client_proxy_chunk_stat", rpc_chunk_stat_in_t,
        rpc_chunk_stat_out_t),
    Reg("client_proxy_create", rpc_mk_node_in_t, rpc_err_out_t),
    Reg("client_proxy_stat", rpc_path_only_in_t, rpc_stat_out_t),
    Reg("client_proxy_remove", rpc_rm_node_in_t, rpc_err_out_t),
    Reg("client_proxy_decr_size", rpc_trunc_in_t, rpc_err_out_t),
    Reg("client_proxy_get_size", rpc_path_only_in_t,
        rpc_get_metadentry_size_out_t),
    Reg("client_proxy_update_size", rpc_update_metadentry_size_in_t,
        rpc_update_metadentry_size_out_t),
    Reg("client_proxy_get_dirents_extended", rpc_proxy_get_dirents_in_t,
        rpc_get_dirents_out_t) }

(* What a proxy calls on daemons.                                          *)
proxy_register_client_rpcs ==
  { Reg("proxy_daemon_write", rpc_proxy_daemon_write_in_t, rpc_data_out_t),
    Reg("proxy_daemon_read", rpc_proxy_daemon_read_in_t, rpc_data_out_t),
    Reg("truncate", rpc_trunc_in_t, rpc_err_out_t),
    Reg("get_chunk_stat", rpc_chunk_stat_in_t, rpc_chunk_stat_out_t),
    Reg("create", rpc_mk_node_in_t, rpc_err_out_t),
    Reg("stat", rpc_path_only_in_t, rpc_stat_out_t),
    Reg("remove_metadata", rpc_rm_node_in_t, rpc_rm_metadata_out_t),
    Reg("decr_size", rpc_trunc_in_t, rpc_err_out_t),
    Reg("remove_data", rpc_rm_node_in_t, rpc_err_out_t),
    Reg("get_metadentry_size", rpc_path_only_in_t,
        rpc_get_metadentry_size_out_t),
    Reg("update_metadentry_size", rpc_update_metadentry_size_in_t,
        rpc_update_metadentry_size_out_t),
    Reg("get_dirents_extended", rpc_get_dirents_in_t, rpc_get_dirents_out_t) }

(* What a daemon calls on other daemons while it redistributes.            *)
daemon_register_client_rpcs ==
  { Reg("migrate_metadata", rpc_migrate_metadata_in_t, rpc_err_out_t),
    Reg("write", rpc_write_data_in_t, rpc_data_out_t) }

(* The client's request types: provider 0 talks to daemons, 1 to the proxy.*)
register_user_request_types(provider_id) ==
  IF provider_id = 0
  THEN <<fs_config, create, stat, remove_metadata, decr_size,
         update_metadentry, get_metadentry_size, update_metadentry_size,
         mk_symlink, remove_data, write_data, read_data, trunc_data,
         get_dirents, chunk_stat, get_dirents_extended, expand_start,
         expand_status, expand_finalize>>
  ELSE <<write_data_proxy, read_data_proxy, trunc_data_proxy,
         chunk_stat_proxy, create_proxy, stat_proxy, remove_proxy,
         decr_size_proxy, get_metadentry_size_proxy,
         update_metadentry_size_proxy, get_dirents_extended_proxy>>

Providers == {0, 1}
ServerOf(provider) ==
  IF provider = 0 THEN register_server_rpcs ELSE register_server_ipcs

-----------------------------------------------------------------------------
(* Values worth sending: each field its own number, and one field at a     *)
(* time at the ends of its type's range.                                   *)

Names(struct) == {struct[i][1] : i \in DOMAIN struct}
IndexOf(struct, f) == CHOOSE i \in DOMAIN struct : struct[i][1] = f

Ends(t) ==
  CASE t = "i32" -> {-(M32 \div 2), M32 \div 2 - 1}
    [] t = "u32" -> {0, M32 - 1}
    [] t = "i64" -> {-(M64 \div 2), M64 \div 2 - 1}
    [] t = "u64" -> {0, M64 - 1}
    [] t = "bool" -> {0, 1}
    [] OTHER -> {}

Plain(struct) ==
  [f \in Names(struct) |->
     LET i == IndexOf(struct, f)
     IN  IF struct[i][2] = "bool" THEN i % 2 ELSE i % (M32 \div 2)]

Contents(struct) ==
  {Plain(struct)} \cup
  UNION {{[Plain(struct) EXCEPT ![struct[i][1]] = v] : v \in Ends(struct[i][2])}
           : i \in DOMAIN struct}

-----------------------------------------------------------------------------
(* registered: the name the client's RPC library sends for a public id.    *)
(* call: the call under way.                                               *)
VARIABLES registered, call

vars == <<registered, call>>

NoCall == [stage |-> "idle"]

Init == registered = [p \in Providers |-> <<>>] /\ call = NoCall

(* Mercury: a struct travels as its typed fields in order, and is read     *)
(* back by a struct of the same field types.                               *)
ToWire(struct, value) ==
  [i \in DOMAIN struct |-> <<struct[i][2], value[struct[i][1]]>>]
FromWire(struct, wire) ==
  [f \in Names(struct) |-> wire[IndexOf(struct, f)][2]]
SameShape(struct, wire) ==
  /\ DOMAIN struct = DOMAIN wire
  /\ \A i \in DOMAIN struct : struct[i][2] = wire[i][1]

(* Hermes keeps one descriptor per public id; a second RPC with an id that *)
(* is taken is not added.                                                  *)
RegisterTypes(p) ==
  LET rpcs == register_user_request_types(p)
      ids == {rpcs[i].id : i \in DOMAIN rpcs}
      First(id) == CHOOSE i \in DOMAIN rpcs :
                     /\ rpcs[i].id = id
                     /\ \A j \in 1..(i - 1) : rpcs[j].id # id
  IN  /\ registered[p] = <<>>
      /\ registered' = [registered EXCEPT
                          ![p] = [id \in ids |-> rpcs[First(id)].name]]
      /\ UNCHANGED call

(* post<rpc>(endpoint, args...): the conversion operator lists the members *)
(* of the input object; members it does not list are zero in the struct.   *)
ClientPost(p) ==
  /\ call = NoCall /\ registered[p] # <<>>
  /\ \E r \in {register_user_request_types(p)[i] :
                 i \in DOMAIN register_user_request_types(p)} :
       LET given == SubSeq(r.in, 1, Len(r.input))
           Member(i, args) ==
             IF i \in DOMAIN r.input
             THEN Convert(r.input[i][2], args[r.input[i][1]])
             ELSE 0
           Wire(args) ==
             [i \in DOMAIN r.in |->
                <<r.in[i][2], Convert(r.in[i][2], Member(i, args))>>]
       IN  \E args \in Contents(given) :
             call' = [stage |-> "sent", rpc |-> r, server |-> ServerOf(p),
                      name |-> registered[p][r.id], args |-> args,
                      wire |-> Wire(args)]
  /\ UNCHANGED registered

(* margo_forward(handle, &in): the caller has filled the struct by name.   *)
MargoForward(regs, server) ==
  /\ call = NoCall
  /\ \E r \in regs : \E args \in Contents(r.in) :
       call' = [stage |-> "sent",
                rpc |-> [name |-> r.name, in |-> r.in, out |-> r.out,
                         output |-> <<>>],
                server |-> server, name |-> r.name, args |-> args,
                wire |-> ToWire(r.in, args)]
  /\ UNCHANGED registered

(* The receiver runs the handler registered under the name and reads the   *)
(* input with that registration's struct; a request that fits no handler   *)
(* fails.                                                                  *)
Handle ==
  LET fits == {r \in call.server : r.name = call.name
                                     /\ SameShape(r.in, call.wire)}
  IN  /\ call.stage = "sent"
      /\ call' = IF fits = {} THEN [call EXCEPT !.stage = "failed"]
                 ELSE LET r == CHOOSE r \in fits : TRUE
                      IN  [call EXCEPT !.stage = "running"]
                          @@ [handler |-> r, seen |-> FromWire(r.in, call.wire)]
      /\ UNCHANGED registered

(* The handler answers; strings it leaves alone are null.                  *)
Respond ==
  /\ call.stage = "running"
  /\ LET out == call.handler.out
         unset == [f \in Names(out) |->
                     IF out[IndexOf(out, f)][2] = "str" THEN Null
                     ELSE Plain(out)[f]]
     IN  \E answer \in Contents(out) \cup {unset} :
           call' = [call EXCEPT !.stage = "answered",
                                !.wire = ToWire(out, answer)]
                   @@ [answer |-> answer]
  /\ UNCHANGED registered

(* The caller reads the answer: a Hermes class copies the fields it keeps  *)
(* and leaves a string empty (0) that came as null; Margo hands out the    *)
(* struct.                                                                 *)
Receive ==
  LET r == call.rpc
      raw == FromWire(r.out, call.wire)
      kept == IF r.output = <<>> THEN r.out ELSE r.output
      Kept(f) == LET t == kept[IndexOf(kept, f)][2]
                 IN  IF t = "str" /\ raw[f] = Null /\ r.output # <<>> THEN 0
                     ELSE Convert(t, raw[f])
  IN  /\ call.stage = "answered"
      /\ SameShape(r.out, call.wire)
      /\ call' = [call EXCEPT !.stage = "done"]
                 @@ [got |-> [f \in Names(kept) |-> Kept(f)]]
      /\ UNCHANGED registered

Finish ==
  /\ call.stage \in {"done", "failed"}
  /\ call' = NoCall
  /\ UNCHANGED registered

Next ==
  \/ \E p \in Providers : RegisterTypes(p) \/ ClientPost(p)
  \/ MargoForward(proxy_register_client_rpcs, register_proxy_server_rpcs)
  \/ MargoForward(daemon_register_client_rpcs, register_server_rpcs)
  \/ Handle \/ Respond \/ Receive \/ Finish

Spec == Init /\ [][Next]_vars

-----------------------------------------------------------------------------
Stages == {"idle", "sent", "running", "answered", "done", "failed"}

(* The call is in a known stage and carries a wire image while it is under *)
(* way.                                                                    *)
TypeOK ==
  /\ call.stage \in Stages
  /\ call.stage # "idle" => call.wire \in Seq(
       {"i32", "u32", "i64", "u64", "bool", "str", "bulk"} \X Int)

(* Whatever process calls and whatever the arguments, the handler that     *)
(* runs is the one of the RPC the caller named and it sees, field by       *)
(* field, the values the caller passed; a field the client's class does    *)
(* not send is zero (rm_dir of remove_data).                               *)
ArgumentsArrive ==
  call.stage = "running" =>
    /\ call.handler = Reg(call.rpc.name, call.rpc.in, call.rpc.out)
    /\ \A f \in DOMAIN call.seen :
         call.seen[f] = IF f \in DOMAIN call.args THEN call.args[f] ELSE 0

(* The caller gets every value the handler answered with, unchanged by the *)
(* widths of the client's members; a string the handler did not set reads  *)
(* as the empty string in a client.                                        *)
AnswersArrive ==
  call.stage = "done" =>
    /\ DOMAIN call.got = DOMAIN call.answer
    /\ \A f \in DOMAIN call.got :
         call.got[f] \in IF call.answer[f] = Null THEN {0, Null}
                         ELSE {call.answer[f]}

(* No request any process can send is turned away: every name a caller     *)
(* uses is registered at the server it goes to, with the same structs, and *)
(* no public id of the client's request types is used twice.               *)
NoCallRefused == call.stage # "failed"
=============================================================================
