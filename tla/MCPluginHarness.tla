-------------------------- MODULE MCPluginHarness --------------------------
(***************************************************************************)
(* Instances of PluginHarness for TLC: the plugins of cordis.yml that      *)
(* others depend on, with what they do in apply(), and patched trees: one  *)
(* with a plugin twice, one whose queue comes before what it needs, one    *)
(* without a state backend, and one with a plugin of the tests             *)
(* (tests/harness/test_context.py:322) that registers cleanups and fails.  *)
(***************************************************************************)
EXTENDS PluginHarness

AllPlugins == {"runtime", "state_backend", "artifacts", "jobs", "progress", "ocr",
               "extension"}

Step(kind, key) == [kind |-> kind, key |-> key]

ApplySteps ==
  [p \in AllPlugins |->
     CASE p = "runtime" ->
            <<Step("service", "RuntimeService"), Step("effect", "_stop_loop")>>
       [] p = "state_backend" ->
            <<Step("service", "StateBackend"), Step("effect", "aclose")>>
       [] p = "artifacts" ->
            <<Step("inject", "StateBackend"), Step("service", "ArtifactStore")>>
       [] p = "jobs" ->
            <<Step("inject", "StateBackend"), Step("inject", "ArtifactStore"),
              Step("service", "JobQueue"), Step("effect", "shutdown")>>
       [] p = "progress" ->
            <<Step("inject", "StateBackend"), Step("service", "ProgressService"),
              Step("router", "progress")>>
       [] p = "ocr" ->
            <<Step("inject", "RuntimeService"), Step("inject", "JobQueue"),
              Step("inject", "ArtifactStore"), Step("service", "OCRService"),
              Step("service", "JobRunner"), Step("listener", "record_event"),
              Step("router", "ocr")>>
       [] p = "extension" ->
            <<Step("service", "Extension"), Step("effect", "first_cleanup"),
              Step("effect", "bad_cleanup"), Step("inject", "Missing")>>]

Cordis == <<"runtime", "state_backend", "artifacts", "jobs", "progress", "ocr">>

AllTrees ==
  {Cordis,
   <<"runtime", "state_backend", "artifacts", "state_backend">>,
   <<"runtime", "state_backend", "jobs", "artifacts">>,
   <<"runtime", "artifacts">>,
   <<"runtime", "state_backend", "extension", "artifacts">>,
   <<"state_backend", "artifacts", "jobs", "runtime">>}
=============================================================================
