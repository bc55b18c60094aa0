------------------------------ MODULE MCFsCore ------------------------------
(* Values for the model checking of FsCore. *)
EXTENDS FsCore

MCSessions == <<"0", "1">>

peer == <<"tcp", "peer">>
star == <<"tcp", "star">>

\* below /tcp: entries, sessions and the unloading of the TCP types
TcpWork ==
    [files |-> {peer, star, clone, <<"tcp", "0">>},
     dirs |-> {<<"tcp">>, <<"tcp", "0">>},
     opens |-> {modules, clone, <<"tcp", "0", "listen">>},
     removes |-> {<<"tcp">>, <<"tcp", "0">>, <<"tcp", "0", "ctl">>, peer, star, clone, modules},
     loads |-> {}, fails |-> {},
     unloads |-> {"tcp_dir", "client", "clone", "ctl", "tcp_installer"}]

\* below /eth: packet files, and modules that provide them too
EthWork ==
    [files |-> {<<"eth", "if2">>},
     dirs |-> {<<"eth">>},
     opens |-> {modules},
     removes |-> {<<"eth">>, <<"eth", "if1">>, <<"eth", "if2">>, modules},
     loads |-> {"mod_net_eth", "mod_other"}, fails |-> {"mod_other"},
     unloads |-> {"raw", "eth_installer", "mod_net_eth", "module_loader", "file"}]

\* session directories that cannot be made whole: the default type and one of a
\* session's files are unloaded
HalfWork ==
    [files |-> {}, dirs |-> {<<"tcp", "0">>}, opens |-> {modules, clone},
     removes |-> {<<"tcp", "0">>}, loads |-> {}, fails |-> {},
     unloads |-> {"file", "local", "session_dir"}]

MCWorkloads == {TcpWork, EthWork, HalfWork}
=============================================================================
