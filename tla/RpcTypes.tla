----------------------------- MODULE RpcTypes -----------------------------
(***************************************************************************)
(* The messages GekkoFS processes exchange.  The structs of                *)
(* include/common/rpc/rpc_types.hpp are what travels: Mercury writes their *)
(* fields in order.  Daemon and proxy handlers read and write those        *)
(* structs; the client has a class per RPC                                 *)
(* (include/client/rpc/rpc_types.hpp) whose input is turned into the       *)
(* struct by listing its members in order and whose output is read from    *)
(* the struct field by field.                                              *)
(*                                                                         *)
(* A field is a pair of its name and its type: i32, u32, i64, u64 are the  *)
(* machine integers, str a C string, bulk a registered memory region.      *)
(***************************************************************************)
EXTENDS Integers, Sequences

-----------------------------------------------------------------------------
(* The Mercury structs.                                                    *)

path == <<"path", "str">>
err == <<"err", "i32">>
bulk_handle == <<"bulk_handle", "bulk">>
hg_void_t == <<>>

rpc_err_out_t == <<err>>
rpc_mk_node_in_t == <<path, <<"mode", "u32">>>>
rpc_path_only_in_t == <<path>>
rpc_stat_out_t == <<err, <<"db_val", "str">>>>
rpc_rm_node_in_t == <<path, <<"rm_dir", "bool">>>>
rpc_rm_metadata_out_t == <<err, <<"size", "i64">>, <<"mode", "u32">>>>
rpc_trunc_in_t == <<path, <<"length", "u64">>>>
rpc_update_metadentry_in_t ==
  <<path, <<"nlink", "u64">>, <<"mode", "u32">>, <<"uid", "u32">>,
    <<"gid", "u32">>, <<"size", "i64">>, <<"blocks", "i64">>,
    <<"atime", "i64">>, <<"mtime", "i64">>, <<"ctime", "i64">>,
    <<"nlink_flag", "bool">>, <<"mode_flag", "bool">>,
    <<"size_flag", "bool">>, <<"block_flag", "bool">>,
    <<"atime_flag", "bool">>, <<"mtime_flag", "bool">>,
    <<"ctime_flag", "bool">>>>
rpc_update_metadentry_size_in_t ==
  <<path, <<"size", "u64">>, <<"offset", "i64">>, <<"append", "bool">>>>
rpc_update_metadentry_size_out_t == <<err, <<"ret_offset", "i64">>>>
rpc_get_metadentry_size_out_t == <<err, <<"ret_size", "i64">>>>
rpc_mk_symlink_in_t == <<path, <<"target_path", "str">>>>
rpc_read_data_in_t ==
  <<path, <<"offset", "i64">>, <<"host_id", "u64">>, <<"host_size", "u64">>,
    <<"wbitset", "str">>, <<"chunk_n", "u64">>, <<"chunk_start", "u64">>,
    <<"chunk_end", "u64">>, <<"total_chunk_size", "u64">>, bulk_handle>>
rpc_data_out_t == <<err, <<"io_size", "u64">>>>
rpc_write_data_in_t ==
  <<path, <<"offset", "i64">>, <<"host_id", "u64">>, <<"host_size", "u64">>,
    <<"wbitset", "str">>, <<"chunk_n", "u64">>, <<"chunk_start", "u64">>,
    <<"chunk_end", "u64">>, <<"total_chunk_size", "u64">>, bulk_handle>>
rpc_get_dirents_in_t == <<path, bulk_handle>>
rpc_get_dirents_out_t == <<err, <<"dirents_size", "u64">>>>
rpc_config_out_t ==
  <<<<"mountdir", "str">>, <<"rootdir", "str">>, <<"atime_state", "bool">>,
    <<"mtime_state", "bool">>, <<"ctime_state", "bool">>,
    <<"link_cnt_state", "bool">>, <<"blocks_state", "bool">>,
    <<"uid", "u32">>, <<"gid", "u32">>>>
rpc_chunk_stat_in_t == <<<<"dummy", "i32">>>>
rpc_chunk_stat_out_t ==
  <<err, <<"chunk_size", "u64">>, <<"chunk_total", "u64">>,
    <<"chunk_free", "u64">>>>
rpc_client_proxy_write_in_t ==
  <<path, <<"offset", "i64">>, <<"write_size", "u64">>, bulk_handle>>
rpc_client_proxy_read_in_t ==
  <<path, <<"offset", "i64">>, <<"read_size", "u64">>, bulk_handle>>
rpc_client_proxy_trunc_in_t ==
  <<path, <<"current_size", "u64">>, <<"length", "u64">>>>
rpc_proxy_daemon_write_in_t ==
  <<path, <<"offset", "i64">>, <<"host_id", "u64">>, <<"host_size", "u64">>,
    <<"chunk_n", "u64">>, <<"chunk_start", "u64">>, <<"chunk_end", "u64">>,
    <<"total_chunk_size", "u64">>, bulk_handle>>
rpc_proxy_daemon_read_in_t ==
  <<path, <<"offset", "i64">>, <<"host_id", "u64">>, <<"host_size", "u64">>,
    <<"chunk_n", "u64">>, <<"chunk_start", "u64">>, <<"chunk_end", "u64">>,
    <<"total_chunk_size", "u64">>, bulk_handle>>
rpc_proxy_get_dirents_in_t == <<path, <<"server", "i32">>, bulk_handle>>
rpc_expand_start_in_t ==
  <<<<"old_server_conf", "u32">>, <<"new_server_conf", "u32">>>>
rpc_migrate_metadata_in_t == <<<<"key", "str">>, <<"value", "str">>>>

-----------------------------------------------------------------------------
(* The client's RPC classes.  `input` lists the members in the order the   *)
(* class's conversion operator puts them into the struct `in`, with the    *)
(* members' own types; `output` lists the fields of `out` the class keeps. *)
(* A member called m_buffers becomes the field bulk_handle.                *)

Rpc(id, name, in, input, out, output) ==
  [id |-> id, name |-> name, in |-> in, input |-> input,
   out |-> out, output |-> output]

fs_config_input == <<>>
fs_config_output ==
  <<<<"mountdir", "str">>, <<"rootdir", "str">>, <<"atime_state", "bool">>,
    <<"mtime_state", "bool">>, <<"ctime_state", "bool">>,
    <<"link_cnt_state", "bool">>, <<"blocks_state", "bool">>,
    <<"uid", "u32">>, <<"gid", "u32">>>>
fs_config ==
  Rpc(1, "fs_config", hg_void_t, fs_config_input,
      rpc_config_out_t, fs_config_output)

create ==
  Rpc(2, "create", rpc_mk_node_in_t, <<path, <<"mode", "u32">>>>,
      rpc_err_out_t, <<err>>)

stat ==
  Rpc(3, "stat", rpc_path_only_in_t, <<path>>,
      rpc_stat_out_t, <<err, <<"db_val", "str">>>>)

remove_metadata ==
  Rpc(4, "remove_metadata", rpc_rm_node_in_t, <<path, <<"rm_dir", "bool">>>>,
      rpc_rm_metadata_out_t, <<err, <<"size", "i64">>, <<"mode", "u32">>>>)

decr_size ==
  Rpc(5, "decr_size", rpc_trunc_in_t, <<path, <<"length", "u64">>>>,
      rpc_err_out_t, <<err>>)

(* Mutant: access and modification time change places.                     *)
update_metadentry_input_swapped ==
  <<path, <<"nlink", "u64">>, <<"mode", "u32">>, <<"uid", "u32">>,
    <<"gid", "u32">>, <<"size", "i64">>, <<"blocks", "i64">>,
    <<"mtime", "i64">>, <<"atime", "i64">>, <<"ctime", "i64">>,
    <<"nlink_flag", "bool">>, <<"mode_flag", "bool">>,
    <<"size_flag", "bool">>, <<"block_flag", "bool">>,
    <<"atime_flag", "bool">>, <<"mtime_flag", "bool">>,
    <<"ctime_flag", "bool">>>>
update_metadentry_input ==
  <<path, <<"nlink", "u64">>, <<"mode", "u32">>, <<"uid", "u32">>,
    <<"gid", "u32">>, <<"size", "i64">>, <<"blocks", "i64">>,
    <<"atime", "i64">>, <<"mtime", "i64">>, <<"ctime", "i64">>,
    <<"nlink_flag", "bool">>, <<"mode_flag", "bool">>,
    <<"size_flag", "bool">>, <<"block_flag", "bool">>,
    <<"atime_flag", "bool">>, <<"mtime_flag", "bool">>,
    <<"ctime_flag", "bool">>>>
update_metadentry_output == <<err>>
update_metadentry ==
  Rpc(6, "update_metadentry", rpc_update_metadentry_in_t,
      update_metadentry_input, rpc_err_out_t, update_metadentry_output)

get_metadentry_size ==
  Rpc(7, "get_metadentry_size", rpc_path_only_in_t, <<path>>,
      rpc_get_metadentry_size_out_t, <<err, <<"ret_size", "i64">>>>)

update_metadentry_size ==
  Rpc(8, "update_metadentry_size", rpc_update_metadentry_size_in_t,
      <<path, <<"size", "u64">>, <<"offset", "i64">>, <<"append", "bool">>>>,
      rpc_update_metadentry_size_out_t, <<err, <<"ret_offset", "i64">>>>)

mk_symlink ==
  Rpc(9, "mk_symlink", rpc_mk_symlink_in_t,
      <<path, <<"target_path", "str">>>>,
      rpc_err_out_t, <<err>>)

remove_data ==
  Rpc(10, "remove_data", rpc_rm_node_in_t, <<path>>,
      rpc_err_out_t, <<err>>)

write_data_input ==
  <<path, <<"offset", "i64">>, <<"host_id", "u64">>, <<"host_size", "u64">>,
    <<"wbitset", "str">>, <<"chunk_n", "u64">>, <<"chunk_start", "u64">>,
    <<"chunk_end", "u64">>, <<"total_chunk_size", "u64">>, bulk_handle>>
(* Mutant: the number of bytes moved is kept in 32 bits.                   *)
write_data_output_narrow == <<err, <<"io_size", "u32">>>>
write_data_output == <<err, <<"io_size", "u64">>>>
write_data ==
  Rpc(11, "write", rpc_write_data_in_t, write_data_input,
      rpc_data_out_t, write_data_output)

read_data_input ==
  <<path, <<"offset", "i64">>, <<"host_id", "u64">>, <<"host_size", "u64">>,
    <<"wbitset", "str">>, <<"chunk_n", "u64">>, <<"chunk_start", "u64">>,
    <<"chunk_end", "u64">>, <<"total_chunk_size", "u64">>, bulk_handle>>
read_data_output == <<err, <<"io_size", "u64">>>>
read_data ==
  Rpc(12, "read", rpc_read_data_in_t, read_data_input,
      rpc_data_out_t, read_data_output)

trunc_data ==
  Rpc(13, "truncate", rpc_trunc_in_t, <<path, <<"length", "u64">>>>,
      rpc_err_out_t, <<err>>)

get_dirents ==
  Rpc(14, "get_dirents", rpc_get_dirents_in_t, <<path, bulk_handle>>,
      rpc_get_dirents_out_t, <<err, <<"dirents_size", "u64">>>>)

get_dirents_extended ==
  Rpc(15, "get_dirents_extended", rpc_get_dirents_in_t,
      <<path, bulk_handle>>,
      rpc_get_dirents_out_t, <<err, <<"dirents_size", "u64">>>>)

chunk_stat ==
  Rpc(16, "get_chunk_stat", rpc_chunk_stat_in_t, <<<<"dummy", "i32">>>>,
      rpc_chunk_stat_out_t,
      <<err, <<"chunk_size", "u64">>, <<"chunk_total", "u64">>,
        <<"chunk_free", "u64">>>>)

write_data_proxy ==
  Rpc(20, "client_proxy_write", rpc_client_proxy_write_in_t,
      <<path, <<"offset", "i64">>, <<"write_size", "u64">>, bulk_handle>>,
      rpc_data_out_t, <<err, <<"io_size", "u64">>>>)

read_data_proxy ==
  Rpc(21, "client_proxy_read", rpc_client_proxy_read_in_t,
      <<path, <<"offset", "i64">>, <<"read_size", "u64">>, bulk_handle>>,
      rpc_data_out_t, <<err, <<"io_size", "u64">>>>)

trunc_data_proxy ==
  Rpc(22, "client_proxy_truncate", rpc_client_proxy_trunc_in_t,
      <<path, <<"current_size", "u64">>, <<"length", "u64">>>>,
      rpc_err_out_t, <<err>>)

chunk_stat_proxy ==
  Rpc(23, "client_proxy_chunk_stat", rpc_chunk_stat_in_t,
      <<<<"dummy", "i32">>>>,
      rpc_chunk_stat_out_t,
      <<err, <<"chunk_size", "u64">>, <<"chunk_total", "u64">>,
        <<"chunk_free", "u64">>>>)

create_proxy ==
  Rpc(24, "client_proxy_create", rpc_mk_node_in_t,
      <<path, <<"mode", "u32">>>>,
      rpc_err_out_t, <<err>>)

stat_proxy ==
  Rpc(25, "client_proxy_stat", rpc_path_only_in_t, <<path>>,
      rpc_stat_out_t, <<err, <<"db_val", "str">>>>)

remove_proxy ==
  Rpc(26, "client_proxy_remove", rpc_rm_node_in_t,
      <<path, <<"rm_dir", "bool">>>>,
      rpc_err_out_t, <<err>>)

decr_size_proxy ==
  Rpc(27, "client_proxy_decr_size", rpc_trunc_in_t,
      <<path, <<"length", "u64">>>>,
      rpc_err_out_t, <<err>>)

get_metadentry_size_proxy ==
  Rpc(28, "client_proxy_get_size", rpc_path_only_in_t, <<path>>,
      rpc_get_metadentry_size_out_t, <<err, <<"ret_size", "i64">>>>)

update_metadentry_size_proxy ==
  Rpc(29, "client_proxy_update_size", rpc_update_metadentry_size_in_t,
      <<path, <<"size", "u64">>, <<"offset", "i64">>, <<"append", "bool">>>>,
      rpc_update_metadentry_size_out_t, <<err, <<"ret_offset", "i64">>>>)

get_dirents_extended_proxy ==
  Rpc(30, "client_proxy_get_dirents_extended", rpc_proxy_get_dirents_in_t,
      <<path, <<"server", "i32">>, bulk_handle>>,
      rpc_get_dirents_out_t, <<err, <<"dirents_size", "u64">>>>)

expand_start ==
  Rpc(50, "expand_start", rpc_expand_start_in_t,
      <<<<"old_server_conf", "u32">>, <<"new_server_conf", "u32">>>>,
      rpc_err_out_t, <<err>>)

expand_status ==
  Rpc(51, "expand_status", hg_void_t, <<>>,
      rpc_err_out_t, <<err>>)

expand_finalize ==
  Rpc(52, "expand_finalize", hg_void_t, <<>>,
      rpc_err_out_t, <<err>>)

=============================================================================
