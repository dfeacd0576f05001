------------------------ MODULE OutputInstallProofs ------------------------
(***************************************************************************)
(* What holds of the installation for any number of outputs, origins and   *)
(* busy ports: the two halves of a viewer are on one server, what is       *)
(* logged as installed is up unless its own origin was closed, and         *)
(* shutting down releases every port.                                      *)
(***************************************************************************)
EXTENDS OutputInstall, TLAPS

Serves(o) == kind[o] # "file" /\ pc[o] \in {"serving"} \cup Settled

(* A state is made by the registration it is named after, and by no other. *)
Made(s) ==
    \A o \in Outputs : /\ s = o     => pc[o] \notin {"waiting", "info", "writing"}
                       /\ s = N + o => pc[o] \notin {"waiting", "info", "registered"}

MadeInv ==
    /\ \A s \in States : s \in tracked \/ promise[s] # "none" => Made(s)
    /\ \A o \in Outputs : pc[o] = "registered" \/ Serves(o) => Made(home[o])

(* Which outputs may be where: the viewers first, each kind on its own way.*)
PhaseInv ==
    /\ \A o \in Outputs :
          /\ kind[o] = "file" => pc[o] \in {"waiting", "writing"} \cup Settled /\ awaits[o] = {}
          /\ kind[o] # "file" => pc[o] # "writing"
          /\ kind[o] = "http" => pc[o] # "registered"
    /\ \A o \in Outputs : kind[o] # "viewer" /\ pc[o] # "waiting" =>
          \A v \in Viewers : pc[v] \in Settled
    /\ \A v, w \in Viewers : pc[v] \in {"waiting", "info"} => pc[w] \in {"waiting", "info", "registered"}
    /\ \A v, w \in Viewers : pc[v] = "waiting" => pc[w] = "waiting"
    /\ stopped => \A o \in Outputs : pc[o] \in Settled

(* No server has answered while a viewer is still registering.             *)
AnswerInv ==
    /\ ~info => /\ \A s \in States : promise[s] = "none"
                /\ \A o \in Outputs : pc[o] # "registered"
    /\ (\A o \in Outputs : pc[o] = "waiting") => \A s \in States : promise[s] = "none"
    /\ (\E v \in Viewers : pc[v] \in {"waiting", "info", "registered"}) =>
          \A s \in States : promise[s] \in {"none", "pending"}

(* Where the routes of an output are, and whom it waits for: the viewers   *)
(* wait for the same servers, which are all the servers there are then.    *)
HomeInv ==
    /\ \A o \in Outputs : pc[o] = "registered" => home[o] \in tracked /\ key[home[o]] = origin[o]
    /\ \A o \in Outputs : Serves(o) => home[o] \in awaits[o] /\ key[home[o]] \in {origin[o], Resolved}
    /\ \A v, w \in Viewers : pc[v] = "registered" /\ pc[w] = "serving" => awaits[w] = tracked
    /\ \A v, w \in Viewers : pc[v] = "serving" /\ pc[w] = "serving" => awaits[v] = awaits[w]

(* A server that listens is known to the adapter, or was closed by it; one *)
(* that will listen is waited for by the output that started it.           *)
ServerInv ==
    /\ \A s \in tracked : promise[s] = "resolved" => s \in up
    /\ \A s \in States : promise[s] = "pending" =>
          \E o \in Outputs : pc[o] \in {"serving", "failed"} /\ s \in awaits[o]
    /\ ~stopped /\ (\A o \in Outputs : kind[o] = "file" \/ pc[o] # "failed") =>
          \A s \in States : promise[s] # "none" => s \in tracked

(* The server of an output that waits is up once it listens, unless a      *)
(* failure the output is to hear of, or one of its own origin, closed it.  *)
ClosedFor(o) ==
    \/ \E s \in awaits[o] : promise[s] = "rejected"
    \/ \E p \in Outputs : kind[p] = "http" /\ pc[p] = "failed" /\ origin[p] = origin[o]

UpInv == \A o \in Outputs :
    pc[o] = "serving" /\ promise[home[o]] = "resolved" => home[o] \in up \/ ClosedFor(o)

Inv == /\ TypeOK /\ MadeInv /\ PhaseInv /\ AnswerInv /\ HomeInv /\ ServerInv /\ UpInv
       /\ OneServerPerViewer /\ ShutdownReleasesPorts

-----------------------------------------------------------------------------
(* What the constants give, and how the states are numbered.               *)
LEMMA Constants == N \in Nat \ {0} /\ Dynamic \subseteq Origins /\ ~(Resolved \in Origins)
BY InstallAssumption

LEMMA Numbers ==
    /\ \A o \in Outputs : o \in States /\ N + o \in States /\ ~(N + o \in Outputs)
    /\ \A o, p \in Outputs : N + o = N + p => o = p
    /\ Outputs # {}
<1>1. N \in Nat \ {0}
  BY Constants
<1>2. 1 \in Outputs
  BY <1>1 DEF Outputs
<1>3. ASSUME NEW o \in Outputs PROVE o \in States /\ N + o \in States /\ ~(N + o \in Outputs)
  BY <1>1 DEF Outputs, States
<1>4. \A o, p \in Outputs : N + o = N + p => o = p
  BY <1>1 DEF Outputs
<1> QED
  BY <1>2, <1>3, <1>4

(* Registering takes the state of the origin, or a new one.                *)
LEMMA StateForFacts ==
    ASSUME TypeOK, NEW id \in States, NEW og \in Origins
    PROVE  /\ StateFor(id, og) \in States
           /\ StateFor(id, og) # id => StateFor(id, og) \in tracked
           /\ StateFor(id, og) \in tracked => key[StateFor(id, og)] = og \/ StateFor(id, og) = id
           /\ \A s \in tracked : key[s] = og => s = StateFor(id, og)
<1>1. CASE \E s \in tracked : key[s] = og
  <2> DEFINE t == CHOOSE s \in tracked : key[s] = og
  <2>1. t \in tracked /\ key[t] = og
    BY <1>1
  <2>2. StateFor(id, og) = t
    BY <1>1 DEF StateFor
  <2>3. \A s \in tracked : key[s] = og => s = t
    BY <2>1, Constants DEF TypeOK
  <2> QED
    BY <2>1, <2>2, <2>3 DEF TypeOK
<1>2. CASE ~ \E s \in tracked : key[s] = og
  BY <1>2 DEF StateFor
<1> QED
  BY <1>1, <1>2

LEMMA RegisterFacts ==
    ASSUME TypeOK, NEW id \in States, NEW og \in Origins, ~(id \in tracked), Register(id, og)
    PROVE  /\ StateFor(id, og) \in States
           /\ tracked' = tracked \cup {StateFor(id, og)}
           /\ tracked' \subseteq States /\ key' \in [States -> Origins \cup {Resolved}]
           /\ key'[StateFor(id, og)] = og
           /\ \A s \in States : s # id => key'[s] = key[s]
           /\ StateFor(id, og) = id \/ StateFor(id, og) \in tracked
           /\ \A s, t \in tracked' : key'[s] = key'[t] => s = t \/ key'[s] = Resolved
<1> DEFINE new == StateFor(id, og)
<1>1. /\ new \in States
      /\ new # id => new \in tracked
      /\ new \in tracked => key[new] = og
      /\ \A s \in tracked : key[s] = og => s = new
  BY StateForFacts
<1>2. tracked' = tracked \cup {new} /\ key' = [key EXCEPT ![new] = og]
  BY DEF Register
<1> HIDE DEF new
<1>3. /\ tracked \subseteq States /\ key \in [States -> Origins \cup {Resolved}]
      /\ \A s, t \in tracked : key[s] = key[t] => s = t \/ key[s] = Resolved
  BY DEF TypeOK
<1>4. tracked' \subseteq States /\ key' \in [States -> Origins \cup {Resolved}] /\ key'[new] = og
  BY <1>1, <1>2, <1>3
<1>5. \A s \in States : s # id => key'[s] = key[s]
  BY <1>1, <1>2, <1>3
<1>6. \A s \in tracked : s # new => key'[s] = key[s] /\ key[s] # og
  BY <1>1, <1>2, <1>3
<1>7. \A s, t \in tracked' : key'[s] = key'[t] => s = t \/ key'[s] = Resolved
  BY <1>2, <1>3, <1>4, <1>6
<1> QED
  BY <1>1, <1>2, <1>4, <1>5, <1>7 DEF new

(* The steps of the module itself: the viewers register first, then the    *)
(* other outputs publish, once the address lookup settled.                 *)
LEMMA InstallViewersKeeps == ASSUME Inv, InstallViewers PROVE Inv'
<1>1. TypeOK'
  BY Constants DEF Inv, TypeOK, InstallViewers, config, servers, vars
<1>2. MadeInv'
  BY Constants DEF Inv, TypeOK, InstallViewers, config, servers, vars, MadeInv,
     Made, Serves, Settled
<1>3. PhaseInv'
  BY Constants DEF Inv, TypeOK, PhaseInv, InstallViewers, config, vars,
     Viewers, Settled
<1>4. AnswerInv'
  BY Constants DEF Inv, TypeOK, InstallViewers, config, servers, vars,
     AnswerInv
<1>5. HomeInv'
  BY Constants DEF Inv, TypeOK, InstallViewers, config, vars, HomeInv, Serves,
     Viewers, Settled
<1>6. ServerInv'
  BY Constants DEF Inv, TypeOK, InstallViewers, config, servers, vars,
     ServerInv
<1>7. UpInv'
  BY Constants DEF Inv, TypeOK, InstallViewers, config, vars, UpInv
<1>8. OneServerPerViewer'
  BY Constants DEF Inv, TypeOK, InstallViewers, config, vars,
     OneServerPerViewer, Viewers, Settled
<1>9. ShutdownReleasesPorts'
  BY Constants DEF Inv, TypeOK, InstallViewers, config, servers, vars,
     ShutdownReleasesPorts
<1> QED
  BY <1>1, <1>2, <1>3, <1>4, <1>5, <1>6, <1>7, <1>8, <1>9 DEF Inv

LEMMA PublishKeeps == ASSUME Inv, PublishOutputs PROVE Inv'
<1>1. TypeOK'
  BY Constants DEF Inv, TypeOK, PublishOutputs, config, servers, vars
<1>2. MadeInv'
  BY Constants DEF Inv, TypeOK, PublishOutputs, config, servers, vars, MadeInv,
     Made, Serves, Settled
<1>3. PhaseInv'
  BY Constants DEF Inv, TypeOK, PhaseInv, PublishOutputs, config, vars,
     Viewers, Settled
<1>4. AnswerInv'
  BY Constants DEF Inv, TypeOK, PublishOutputs, config, servers, vars,
     AnswerInv, Viewers
<1>5. HomeInv'
  BY Constants DEF Inv, TypeOK, PublishOutputs, config, servers, vars, HomeInv,
     Serves, Viewers, Settled
<1>6. ServerInv'
  BY Constants DEF Inv, TypeOK, PublishOutputs, config, servers, vars,
     ServerInv
<1>7. UpInv'
  BY Constants DEF Inv, TypeOK, PublishOutputs, config, servers, vars, UpInv,
     ClosedFor
<1>8. OneServerPerViewer'
  BY Constants DEF Inv, TypeOK, PublishOutputs, config, vars,
     OneServerPerViewer, Viewers
<1>9. ShutdownReleasesPorts'
  BY Constants DEF Inv, TypeOK, PublishOutputs, config, servers, vars,
     ShutdownReleasesPorts
<1> QED
  BY <1>1, <1>2, <1>3, <1>4, <1>5, <1>6, <1>7, <1>8, <1>9 DEF Inv

LEMMA LookupKeeps == ASSUME Inv, LookupSettles PROVE Inv'
<1>1. TypeOK'
  BY Constants DEF Inv, TypeOK, LookupSettles, config, servers, vars
<1>2. MadeInv'
  BY Constants DEF Inv, TypeOK, LookupSettles, config, servers, vars, MadeInv,
     Made, Serves
<1>3. PhaseInv'
  BY Constants DEF Inv, TypeOK, PhaseInv, LookupSettles, config, vars, Viewers
<1>4. AnswerInv'
  BY Constants DEF Inv, TypeOK, LookupSettles, config, servers, vars, AnswerInv
<1>5. HomeInv'
  BY Constants DEF Inv, TypeOK, LookupSettles, config, servers, vars, HomeInv,
     Serves, Viewers
<1>6. ServerInv'
  BY Constants DEF Inv, TypeOK, LookupSettles, config, servers, vars, ServerInv
<1>7. UpInv'
  BY Constants DEF Inv, TypeOK, LookupSettles, config, servers, vars, UpInv,
     ClosedFor
<1>8. OneServerPerViewer'
  BY Constants DEF Inv, TypeOK, LookupSettles, config, vars,
     OneServerPerViewer, Viewers
<1>9. ShutdownReleasesPorts'
  BY Constants DEF Inv, TypeOK, LookupSettles, config, servers, vars,
     ShutdownReleasesPorts
<1> QED
  BY <1>1, <1>2, <1>3, <1>4, <1>5, <1>6, <1>7, <1>8, <1>9 DEF Inv

LEMMA WriteKeeps == ASSUME Inv, NEW o \in Outputs, WriteSettles(o) PROVE Inv'
<1>1. TypeOK'
  BY Constants DEF Inv, TypeOK, WriteSettles, config, servers, vars, Goes,
     Settled
<1>2. MadeInv'
  BY Constants DEF Inv, TypeOK, PhaseInv, WriteSettles, config, servers, vars,
     Goes, MadeInv, Made, Serves
<1>3. PhaseInv'
  BY Constants DEF Inv, TypeOK, PhaseInv, WriteSettles, config, vars, Goes,
     Viewers, Settled
<1>4. AnswerInv'
  BY Constants DEF Inv, TypeOK, WriteSettles, config, servers, vars, Goes,
     AnswerInv, Viewers
<1>5. HomeInv'
  BY Constants DEF Inv, TypeOK, PhaseInv, WriteSettles, config, servers, vars,
     Goes, HomeInv, Serves, Viewers
<1>6. ServerInv'
  BY Constants DEF Inv, TypeOK, WriteSettles, config, servers, vars, Goes,
     ServerInv
<1>7. UpInv'
  BY Constants DEF Inv, TypeOK, WriteSettles, config, servers, vars, Goes,
     UpInv, ClosedFor
<1>8. OneServerPerViewer'
  BY Constants DEF Inv, TypeOK, PhaseInv, WriteSettles, config, vars, Goes,
     OneServerPerViewer, Viewers
<1>9. ShutdownReleasesPorts'
  BY Constants DEF Inv, TypeOK, PhaseInv, WriteSettles, config, servers, vars,
     Goes, ShutdownReleasesPorts
<1> QED
  BY <1>1, <1>2, <1>3, <1>4, <1>5, <1>6, <1>7, <1>8, <1>9 DEF Inv

LEMMA InstalledKeeps == ASSUME Inv, NEW o \in Outputs, Installed(o) PROVE Inv'
<1>1. TypeOK'
  BY Constants DEF Inv, TypeOK, Installed, config, servers, vars, Settled
<1>2. MadeInv'
  BY Constants DEF Inv, TypeOK, Installed, AllListen, config, servers, vars,
     MadeInv, Made, Serves
<1>3. PhaseInv'
  BY Constants DEF Inv, TypeOK, PhaseInv, Installed, AllListen, config, vars,
     Viewers, Settled
<1>4. AnswerInv'
  BY Constants DEF Inv, TypeOK, Installed, config, servers, vars, AnswerInv,
     Viewers
<1>5. HomeInv'
  BY Constants DEF Inv, TypeOK, Installed, AllListen, config, servers, vars,
     HomeInv, Serves, Viewers
<1>6. ServerInv'
  BY Constants DEF Inv, TypeOK, Installed, AllListen, config, servers, vars,
     ServerInv
<1>7. UpInv'
  BY Constants DEF Inv, TypeOK, Installed, AllListen, config, servers, vars,
     UpInv, ClosedFor
<1>8. OneServerPerViewer'
  BY Constants DEF Inv, TypeOK, Installed, AllListen, config, vars,
     OneServerPerViewer, Viewers
<1>9. ShutdownReleasesPorts'
  BY Constants DEF Inv, TypeOK, PhaseInv, Installed, AllListen, config, vars,
     ShutdownReleasesPorts, Settled
<1> QED
  BY <1>1, <1>2, <1>3, <1>4, <1>5, <1>6, <1>7, <1>8, <1>9 DEF Inv

(* The steps that put an output on a server, and may start one.            *)
LEMMA RegisterViewerKeeps == ASSUME Inv, NEW o \in Outputs, RegisterViewer(o) PROVE Inv'
<1>1. ~(o \in tracked) /\ promise[o] = "none" /\ o \in States /\ origin[o] \in Origins
  BY Numbers DEF Inv, TypeOK, MadeInv, Made, RegisterViewer, Goes
<1>2. /\ StateFor(o, origin[o]) \in States
      /\ tracked' = tracked \cup {StateFor(o, origin[o])}
      /\ tracked' \subseteq States /\ key' \in [States -> Origins \cup {Resolved}]
      /\ key'[StateFor(o, origin[o])] = origin[o]
      /\ \A s \in States : s # o => key'[s] = key[s]
      /\ StateFor(o, origin[o]) = o \/ StateFor(o, origin[o]) \in tracked
      /\ \A s, t \in tracked' : key'[s] = key'[t] => s = t \/ key'[s] = Resolved
  BY <1>1, RegisterFacts DEF Inv, RegisterViewer
<1>3. TypeOK'
  BY Constants, <1>2 DEF Inv, TypeOK, RegisterViewer, config, vars, Goes
<1>4. MadeInv'
  BY Constants, Numbers, <1>2 DEF Inv, TypeOK, RegisterViewer, config, vars,
     Goes, MadeInv, Made, Serves
<1>5. PhaseInv'
  BY Constants DEF Inv, TypeOK, PhaseInv, RegisterViewer, config, vars, Goes,
     Viewers, Settled
<1>6. AnswerInv'
  BY Constants DEF Inv, TypeOK, RegisterViewer, config, vars, Goes, AnswerInv,
     Viewers
<1>7. HomeInv'
  BY Constants, <1>1, <1>2 DEF Inv, TypeOK, PhaseInv, RegisterViewer, config,
     vars, Goes, HomeInv, Serves, Viewers, Settled
<1>8. ServerInv'
  BY Constants, <1>1, <1>2 DEF Inv, TypeOK, RegisterViewer, config, vars, Goes,
     ServerInv
<1>9. UpInv'
  BY Constants DEF Inv, TypeOK, RegisterViewer, config, vars, Goes, UpInv,
     ClosedFor
<1>10. OneServerPerViewer'
  BY Constants DEF Inv, TypeOK, RegisterViewer, config, vars, Goes,
     OneServerPerViewer, Viewers, Settled
<1>11. ShutdownReleasesPorts'
  BY Constants DEF Inv, TypeOK, RegisterViewer, config, vars, Goes,
     ShutdownReleasesPorts
<1> QED
  BY <1>3, <1>4, <1>5, <1>6, <1>7, <1>8, <1>9, <1>10, <1>11 DEF Inv

LEMMA ServeViewerKeeps == ASSUME Inv, NEW o \in Outputs, ServeViewer(o) PROVE Inv'
<1>1. ~(N + o \in tracked) /\ promise[N + o] = "none" /\ N + o \in States /\ origin[o] \in Origins
  BY Numbers DEF Inv, TypeOK, MadeInv, Made, ServeViewer, Goes
<1>2. /\ StateFor(N + o, origin[o]) \in States
      /\ tracked' = tracked \cup {StateFor(N + o, origin[o])}
      /\ tracked' \subseteq States /\ key' \in [States -> Origins \cup {Resolved}]
      /\ key'[StateFor(N + o, origin[o])] = origin[o]
      /\ \A s \in States : s # N + o => key'[s] = key[s]
      /\ StateFor(N + o, origin[o]) = N + o \/ StateFor(N + o, origin[o]) \in tracked
      /\ \A s, t \in tracked' : key'[s] = key'[t] => s = t \/ key'[s] = Resolved
  BY <1>1, RegisterFacts DEF Inv, ServeViewer, DirectRunOrigin
<1>3. home[o] \in tracked /\ key[home[o]] = origin[o] /\ o \in Viewers
  BY DEF Inv, TypeOK, PhaseInv, HomeInv, ServeViewer, Goes, Viewers, Settled
<1>4. StateFor(N + o, origin[o]) = home[o]
  BY <1>1, <1>3, StateForFacts DEF Inv
<1>5. tracked' = tracked /\ key' = key
  BY <1>3, <1>4 DEF Inv, TypeOK, ServeViewer, Register, DirectRunOrigin
<1>6. \A s \in States : promise[s] \in {"none", "pending"}
  BY <1>3 DEF Inv, AnswerInv, ServeViewer, Goes
<1>7. TypeOK'
  BY Constants, <1>2 DEF Inv, TypeOK, ServeViewer, Serve, DirectRunOrigin,
     config, vars, Goes
<1>8. MadeInv'
  BY Constants, <1>2, <1>3 DEF Inv, TypeOK, ServeViewer, Serve, config, vars,
     Goes, MadeInv, Made, Serves
<1>9. PhaseInv'
  BY Constants DEF Inv, TypeOK, PhaseInv, ServeViewer, Serve, config, vars,
     Goes, Viewers, Settled
<1>10. AnswerInv'
  BY Constants DEF Inv, TypeOK, ServeViewer, Serve, config, vars, Goes,
     AnswerInv, Viewers
<1>11. HomeInv'
  <2>1. awaits' = [awaits EXCEPT ![o] = tracked] /\ home' = home /\ kind' = kind /\ origin' = origin
    BY <1>5 DEF ServeViewer, Serve, config
  <2>2. pc' = [pc EXCEPT ![o] = "serving"] /\ pc[o] = "registered"
    BY DEF ServeViewer, Goes
  <2>3. Viewers' = Viewers
    BY <2>1 DEF Viewers
  <2>4. HomeInv /\ DOMAIN pc = Outputs /\ DOMAIN awaits = Outputs
    BY DEF Inv, TypeOK
  <2>5. \A p \in Outputs : p # o => (Serves(p)' <=> Serves(p))
    BY <2>1, <2>2, <2>4 DEF Serves
  <2>6. \A p \in Outputs : pc'[p] = "registered" => home'[p] \in tracked' /\ key'[home'[p]] = origin'[p]
    BY <1>5, <2>1, <2>2, <2>4 DEF HomeInv
  <2>7. \A p \in Outputs : Serves(p)' =>
            home'[p] \in awaits'[p] /\ key'[home'[p]] \in {origin'[p], Resolved}
    BY <1>3, <1>5, <2>1, <2>4, <2>5 DEF HomeInv
  <2>8. \A v, w \in Viewers : pc'[v] = "registered" /\ pc'[w] = "serving" => awaits'[w] = tracked'
    BY <1>5, <2>1, <2>2, <2>4 DEF HomeInv
  <2>9. \A w \in Viewers : w # o /\ pc'[w] = "serving" => awaits'[w] = awaits'[o]
    BY <1>3, <2>1, <2>2, <2>4 DEF HomeInv
  <2>10. \A v, w \in Viewers : pc'[v] = "serving" /\ pc'[w] = "serving" => awaits'[v] = awaits'[w]
    BY <2>1, <2>2, <2>4, <2>9
  <2> QED
    BY <2>3, <2>6, <2>7, <2>8, <2>10 DEF HomeInv
<1>12. ServerInv'
  BY Constants, <1>1, <1>2 DEF Inv, TypeOK, ServeViewer, Serve, config, vars,
     Goes, ServerInv
<1>13. UpInv'
  BY Constants, <1>6 DEF Inv, TypeOK, ServeViewer, Serve, config, vars, UpInv
<1>14. OneServerPerViewer'
  BY Constants, <1>2, <1>3 DEF Inv, TypeOK, ServeViewer, DirectRunOrigin,
     config, vars, Goes, OneServerPerViewer, Viewers
<1>15. ShutdownReleasesPorts'
  BY Constants, <1>6 DEF Inv, TypeOK, ServeViewer, config, vars,
     ShutdownReleasesPorts
<1> QED
  BY <1>7, <1>8, <1>9, <1>10, <1>11, <1>12, <1>13, <1>14, <1>15 DEF Inv

LEMMA InstallHttpKeeps == ASSUME Inv, NEW o \in Outputs, InstallHttp(o) PROVE Inv'
<1>1. ~(o \in tracked) /\ promise[o] = "none" /\ o \in States /\ origin[o] \in Origins
  BY Numbers DEF Inv, TypeOK, MadeInv, Made, InstallHttp, Goes
<1>2. /\ StateFor(o, origin[o]) \in States
      /\ tracked' = tracked \cup {StateFor(o, origin[o])}
      /\ tracked' \subseteq States /\ key' \in [States -> Origins \cup {Resolved}]
      /\ key'[StateFor(o, origin[o])] = origin[o]
      /\ \A s \in States : s # o => key'[s] = key[s]
      /\ StateFor(o, origin[o]) = o \/ StateFor(o, origin[o]) \in tracked
      /\ \A s, t \in tracked' : key'[s] = key'[t] => s = t \/ key'[s] = Resolved
  BY <1>1, RegisterFacts DEF Inv, InstallHttp
<1>3. TypeOK'
  BY Constants, <1>2 DEF Inv, TypeOK, InstallHttp, Serve, config, vars, Goes
<1>4. MadeInv'
  BY Constants, Numbers, <1>2 DEF Inv, TypeOK, InstallHttp, Serve, config,
     vars, Goes, MadeInv, Made, Serves
<1>5. PhaseInv'
  BY Constants DEF Inv, TypeOK, PhaseInv, InstallHttp, Serve, config, vars,
     Goes, Viewers, Settled
<1>6. AnswerInv'
  BY Constants DEF Inv, TypeOK, InstallHttp, Serve, config, vars, Goes,
     AnswerInv, Viewers
<1>7. HomeInv'
  BY Constants, <1>2 DEF Inv, TypeOK, PhaseInv, InstallHttp, Serve, config,
     vars, Goes, HomeInv, Serves, Viewers, Settled, MadeInv, Made
<1>8. ServerInv'
  BY Constants, <1>1, <1>2 DEF Inv, TypeOK, InstallHttp, Serve, config, vars,
     Goes, ServerInv
<1>9. UpInv'
  <2>1. SUFFICES ASSUME NEW p \in Outputs, pc'[p] = "serving", promise'[home'[p]] = "resolved"
                 PROVE  home'[p] \in up' \/ ClosedFor(p)'
    BY DEF UpInv
  <2>2. /\ UNCHANGED <<kind, origin, up>>
        /\ \A s \in States : promise'[s] # promise[s] =>
                              promise[s] = "none" /\ promise'[s] = "pending"
    BY DEF Inv, TypeOK, InstallHttp, Serve, config
  <2>3. CASE p = o
    <3>1. home'[o] = StateFor(o, origin[o])
      BY DEF Inv, TypeOK, InstallHttp
    <3>2. promise[home'[o]] = "resolved" /\ home'[o] \in tracked
      BY <1>1, <1>2, <2>1, <2>2, <2>3, <3>1
    <3> QED
      BY <2>2, <2>3, <3>2 DEF Inv, ServerInv
  <2>4. CASE p # o
    <3>1. pc[p] = "serving" /\ home'[p] = home[p] /\ home[p] \in States /\ awaits'[p] = awaits[p]
      BY <2>1, <2>4 DEF Inv, TypeOK, InstallHttp, Serve, Goes
    <3>2. home[p] \in up \/ ClosedFor(p)
      BY <2>1, <2>2, <3>1 DEF Inv, UpInv
    <3>3. \A q \in Outputs : pc[q] = "failed" => pc'[q] = "failed"
      BY DEF Inv, TypeOK, InstallHttp, Goes
    <3>4. \A s \in awaits[p] : promise[s] = "rejected" => promise'[s] = "rejected"
      BY <2>2 DEF Inv, TypeOK
    <3> QED
      BY <2>2, <3>1, <3>2, <3>3, <3>4 DEF ClosedFor
  <2> QED
    BY <2>3, <2>4
<1>10. OneServerPerViewer'
  BY Constants DEF Inv, TypeOK, InstallHttp, config, vars, Goes,
     OneServerPerViewer, Viewers
<1>11. ShutdownReleasesPorts'
  BY Constants DEF Inv, TypeOK, InstallHttp, config, vars, Goes,
     ShutdownReleasesPorts
<1> QED
  BY <1>3, <1>4, <1>5, <1>6, <1>7, <1>8, <1>9, <1>10, <1>11 DEF Inv

(* The answers of the servers, and the two ways they are closed.           *)
LEMMA ListensKeeps == ASSUME Inv, NEW s \in States, Listens(s) PROVE Inv'
<1>1. TypeOK'
  BY Constants DEF Inv, TypeOK, Listens, ResolvePort, config, vars
<1>2. MadeInv'
  BY Constants DEF Inv, TypeOK, Listens, ResolvePort, config, vars, MadeInv,
     Made, Serves
<1>3. PhaseInv'
  BY Constants DEF Inv, TypeOK, PhaseInv, Listens, config, vars, Viewers
<1>4. AnswerInv'
  BY Constants DEF Inv, TypeOK, PhaseInv, Listens, Quiet, config, vars,
     AnswerInv, Viewers
<1>5. HomeInv'
  BY Constants DEF Inv, TypeOK, Listens, ResolvePort, Quiet, config, vars,
     HomeInv, Serves, Viewers
<1>6. ServerInv'
  BY Constants DEF Inv, TypeOK, Listens, ResolvePort, config, vars, ServerInv
<1>7. UpInv'
  BY Constants DEF Inv, TypeOK, Listens, config, vars, UpInv, ClosedFor
<1>8. OneServerPerViewer'
  BY Constants DEF Inv, TypeOK, Listens, config, vars, OneServerPerViewer,
     Viewers
<1>9. ShutdownReleasesPorts'
  BY Constants DEF Inv, TypeOK, PhaseInv, Listens, config, vars,
     ShutdownReleasesPorts, ServerInv
<1> QED
  BY <1>1, <1>2, <1>3, <1>4, <1>5, <1>6, <1>7, <1>8, <1>9 DEF Inv

LEMMA CannotListenKeeps == ASSUME Inv, NEW s \in States, CannotListen(s) PROVE Inv'
<1>1. TypeOK'
  BY Constants DEF Inv, TypeOK, CannotListen, config, vars
<1>2. MadeInv'
  BY Constants DEF Inv, TypeOK, CannotListen, config, vars, MadeInv, Made,
     Serves
<1>3. PhaseInv'
  BY Constants DEF Inv, TypeOK, PhaseInv, CannotListen, config, vars, Viewers
<1>4. AnswerInv'
  BY Constants DEF Inv, TypeOK, PhaseInv, CannotListen, Quiet, config, vars,
     AnswerInv, Viewers
<1>5. HomeInv'
  BY Constants DEF Inv, TypeOK, CannotListen, config, vars, HomeInv, Serves,
     Viewers
<1>6. ServerInv'
  BY Constants DEF Inv, TypeOK, CannotListen, config, vars, ServerInv
<1>7. UpInv'
  BY Constants DEF Inv, TypeOK, CannotListen, config, vars, UpInv, ClosedFor
<1>8. OneServerPerViewer'
  BY Constants DEF Inv, TypeOK, CannotListen, config, vars, OneServerPerViewer,
     Viewers
<1>9. ShutdownReleasesPorts'
  BY Constants DEF Inv, TypeOK, CannotListen, config, vars,
     ShutdownReleasesPorts
<1> QED
  BY <1>1, <1>2, <1>3, <1>4, <1>5, <1>6, <1>7, <1>8, <1>9 DEF Inv

LEMMA FailKeeps == ASSUME Inv, NEW o \in Outputs, Fail(o) PROVE Inv'
<1>1. TypeOK'
  BY Constants DEF Inv, TypeOK, Fail, CloseStates, config, vars, Settled
<1>2. MadeInv'
  BY Constants DEF Inv, TypeOK, Fail, SomeFailed, CloseStates, config, vars,
     MadeInv, Made, Serves
<1>3. PhaseInv'
  BY Constants DEF Inv, TypeOK, PhaseInv, Fail, SomeFailed, config, vars,
     Viewers, Settled
<1>4. AnswerInv'
  BY Constants DEF Inv, TypeOK, Fail, config, vars, AnswerInv, Viewers
<1>5. HomeInv'
  BY Constants DEF Inv, TypeOK, PhaseInv, Fail, SomeFailed, config, vars,
     HomeInv, Serves, Viewers, Settled, AnswerInv
<1>6. ServerInv'
  BY Constants DEF Inv, TypeOK, PhaseInv, Fail, SomeFailed, CloseStates,
     config, vars, ServerInv
<1>7. UpInv'
  BY Constants DEF Inv, TypeOK, PhaseInv, Fail, SomeFailed, CloseStates,
     config, vars, UpInv, ClosedFor, Settled, HomeInv, Serves, Viewers
<1>8. OneServerPerViewer'
  BY Constants DEF Inv, TypeOK, Fail, SomeFailed, config, vars,
     OneServerPerViewer, Viewers
<1>9. ShutdownReleasesPorts'
  BY Constants DEF Inv, TypeOK, Fail, CloseStates, config, vars,
     ShutdownReleasesPorts
<1> QED
  BY <1>1, <1>2, <1>3, <1>4, <1>5, <1>6, <1>7, <1>8, <1>9 DEF Inv

LEMMA ShutdownKeeps == ASSUME Inv, Shutdown PROVE Inv'
<1>1. TypeOK'
  BY Constants DEF Inv, TypeOK, Shutdown, CloseStates, config, vars
<1>2. MadeInv'
  BY Constants DEF Inv, TypeOK, Shutdown, CloseStates, config, vars, MadeInv,
     Made, Serves
<1>3. PhaseInv'
  BY Constants DEF Inv, TypeOK, PhaseInv, Shutdown, config, vars, Viewers
<1>4. AnswerInv'
  BY Constants DEF Inv, TypeOK, Shutdown, config, vars, AnswerInv, Viewers
<1>5. HomeInv'
  BY Constants DEF Inv, TypeOK, Shutdown, config, vars, HomeInv, Serves,
     Viewers, Settled
<1>6. ServerInv'
  BY Constants DEF Inv, TypeOK, Shutdown, CloseStates, config, vars, ServerInv
<1>7. UpInv'
  BY Constants DEF Inv, TypeOK, Shutdown, config, vars, UpInv, Settled
<1>8. OneServerPerViewer'
  BY Constants DEF Inv, TypeOK, Shutdown, config, vars, OneServerPerViewer,
     Viewers
<1>9. ShutdownReleasesPorts'
  BY Constants DEF Inv, TypeOK, Shutdown, CloseStates, config, vars,
     ShutdownReleasesPorts, ServerInv
<1> QED
  BY <1>1, <1>2, <1>3, <1>4, <1>5, <1>6, <1>7, <1>8, <1>9 DEF Inv

(* The invariant holds at first, and every step keeps it.                  *)
LEMMA InstallBegins == Init => Inv
<1> SUFFICES ASSUME Init PROVE Inv
  OBVIOUS
<1>1. TypeOK
  BY Numbers DEF Init, TypeOK
<1>2. MadeInv /\ HomeInv /\ UpInv
  BY DEF Init, MadeInv, HomeInv, UpInv, Serves, Viewers, Settled
<1>3. PhaseInv /\ AnswerInv
  BY DEF Init, PhaseInv, AnswerInv, Viewers
<1>4. ServerInv /\ OneServerPerViewer /\ ShutdownReleasesPorts
  BY DEF Init, ServerInv, OneServerPerViewer, ShutdownReleasesPorts
<1> QED
  BY <1>1, <1>2, <1>3, <1>4 DEF Inv

LEMMA StepKeeps == Inv /\ [Next]_vars => Inv'
<1> SUFFICES ASSUME Inv, [Next]_vars PROVE Inv'
  OBVIOUS
<1>1. CASE UNCHANGED vars
  BY <1>1 DEF Inv, TypeOK, MadeInv, Made, PhaseInv, AnswerInv, HomeInv,
     ServerInv, UpInv, ClosedFor, OneServerPerViewer, ShutdownReleasesPorts,
     Serves, Viewers, vars, config, servers
<1>2. CASE Next
  BY <1>2, InstallViewersKeeps, PublishKeeps, LookupKeeps, WriteKeeps,
     InstalledKeeps, RegisterViewerKeeps, ServeViewerKeeps, InstallHttpKeeps,
     ListensKeeps, CannotListenKeeps, FailKeeps, ShutdownKeeps DEF Next,
     Starting
<1> QED
  BY <1>1, <1>2

(* The inductive invariant holds of every installation, whatever the number*)
(* of outputs, their origins and the ports that are taken (output-         *)
(* install.service.ts, http-server.adapter.ts).                            *)
THEOREM Invariance == Spec => []Inv
BY InstallBegins, StepKeeps, PTL DEF Spec

(* The installation's state is well typed; one server at most is tracked   *)
(* for each origin that was asked for.                                     *)
THEOREM TypeCorrect == Spec => []TypeOK
<1>1. Inv => TypeOK
  BY DEF Inv
<1> QED
  BY <1>1, Invariance, PTL

(* The methods of a viewer are run on the server that its graph is on,     *)
(* though other viewers and outputs register and fail in between (viewer-  *)
(* output.adapter.ts).                                                     *)
THEOREM ViewersAreWhole == Spec => []OneServerPerViewer
<1>1. Inv => OneServerPerViewer
  BY DEF Inv
<1> QED
  BY <1>1, Invariance, PTL

(* When every output was installed, an application that shut down leaves no*)
(* port bound: whatever was still starting is closed too (http-            *)
(* server.adapter.ts).                                                     *)
THEOREM PortsAreReleased == Spec => []ShutdownReleasesPorts
<1>1. Inv => ShutdownReleasesPorts
  BY DEF Inv
<1> QED
  BY <1>1, Invariance, PTL

(* An output becomes installed in one way only, after its servers listen.  *)
LEMMA StepInstalls ==
    ASSUME Inv, [Next]_vars, NEW o \in Outputs, pc[o] = "serving", pc'[o] = "installed"
    PROVE  home[o] \in up' \/ \E p \in Outputs : kind[p] = "http" /\ pc[p] = "failed" /\ origin[p] = origin[o]
<1>1. PICK p \in Outputs : Installed(p) /\ p = o
  BY DEF Inv, TypeOK, Next, Starting, vars, InstallViewers, PublishOutputs,
     LookupSettles, RegisterViewer, ServeViewer, InstallHttp, Installed, Fail,
     WriteSettles, Listens, CannotListen, Shutdown, Goes
<1>2. AllListen(o) /\ up' = up
  BY <1>1 DEF Installed, servers
<1>3. kind[o] # "file" /\ home[o] \in awaits[o]
  BY DEF Inv, PhaseInv, HomeInv, Serves, Settled
<1> QED
  BY <1>2, <1>3 DEF Inv, UpInv, ClosedFor, AllListen

(* An output that is logged as installed has its server up, unless an HTTP *)
(* output of the same origin failed and closed it.                         *)
THEOREM InstalledIsUp == Spec => InstalledMeansUp
<1>1. Inv /\ [Next]_vars => [\A o \in Outputs : pc[o] = "serving" /\ pc'[o] = "installed" =>
          \/ home[o] \in up'
          \/ \E p \in Outputs : kind[p] = "http" /\ pc[p] = "failed" /\ origin[p] = origin[o]]_vars
  BY StepInstalls
<1> QED
  BY <1>1, Invariance, PTL DEF Spec, InstalledMeansUp
=============================================================================
