----------------------------- MODULE MCLifeCycle -----------------------------
EXTENDS LifeCycle

\* A package without package_hook_fixture and one test, then two with it.
MCItems == <<"ubse", "ubsmem", "ubsmem", "smap">>
MCFixtured == {"ubsmem", "smap"}
=============================================================================
