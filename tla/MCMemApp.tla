------------------------------ MODULE MCMemApp ------------------------------
EXTENDS MemApp

\* Memory with and without the tool library, and shared memory.
MCVerbs == {<<"create", "addr">>, <<"lend", "fd">>, <<"create", "shm">>, <<"attach", "shm">>,
            <<"detach", "shm">>, <<"delete", "shm">>}
=============================================================================
