---------------------------- MODULE MCUtilities ----------------------------
(* Instance of Utilities for TLC.                                          *)
EXTENDS Utilities

MCDescriptors == [socket_path : {<<"x">>, <<"x", "_", "x">>},
                  shared_mem_path : {<<"x">>, <<"x", "1">>},
                  shared_mem_size : {7, 64, 4096, 4194304}]
=============================================================================
