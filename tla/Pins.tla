--------------------------------- MODULE Pins ---------------------------------
(***************************************************************************)
(* Pins driven from variables: app/src/devices/GPIOdevice.cpp with         *)
(* GPIOVariable.h and GPIOFactory.h, and app/src/devices/PWMDevice.cpp     *)
(* with PWMFactory.h.  A pin may be opened any number of times; each open  *)
(* makes a device of its own over the same registers, and the variable of  *)
(* a name stays with the device that made it.                              *)
(***************************************************************************)
EXTENDS Integers, Sequences, FiniteSetsExt

CONSTANTS
    Gpios,        \* pins opened as GPIO
    Pwms,         \* pins opened as PWM
    Frequencies,  \* frequencies asked for
    MaxPinOpens   \* bound

\* A frequency is an int, of whatever sign (PWMFactory.h:38).
ASSUME PinsAssumption == Frequencies \subseteq Int

VARIABLES
    pin,     \* GPIO registers: [dir, out]
    gpios,   \* GPIO devices, in the order of opening: [pin, config]
    gvars,   \* pin -> the device its variable drives, 0 for none
    slice,   \* PWM slice -> its wrap
    level,   \* PWM pin -> its compare level
    pwms,    \* PWM devices, in the order of opening: [pin, wrap]
    duty,    \* PWM pin -> its .duty variable, in percent
    upset    \* PWM pins whose level was not computed from their duty (history)

pvars == <<pin, gpios, gvars, slice, level, pwms, duty, upset>>

Configurations == {"INPUT", "OUTPUT", "INPUT_PULLUP", "INPUT_PULLDOWN",
                   "OUTPUT_OPEN_DRAIN", "OUTPUT_OPEN_SOURCE"}

PInit ==
    /\ pin = [g \in Gpios |-> [dir |-> "IN", out |-> FALSE]]
    /\ gpios = <<>> /\ gvars = [g \in Gpios |-> 0]
    /\ slice = [s \in {p \div 2 : p \in Pwms} |-> 0]
    /\ level = [p \in Pwms |-> 0] /\ pwms = <<>>
    /\ duty = [p \in Pwms |-> 50] /\ upset = {}

\* setConfiguration, after gpio_init has made the pin an input
Configured(config) ==
    [dir |-> IF config = "OUTPUT" THEN "OUT" ELSE "IN",
     out |-> config \in {"INPUT_PULLDOWN", "OUTPUT_OPEN_SOURCE"}]

OpenGPIO(g, config) ==
    /\ Len(gpios) + Len(pwms) < MaxPinOpens
    /\ pin' = [pin EXCEPT ![g] = Configured(config)]
    /\ gpios' = Append(gpios, [pin |-> g, config |-> config])
    /\ gvars' = [gvars EXCEPT ![g] = IF @ = 0 THEN Len(gpios) + 1 ELSE @]
    /\ UNCHANGED <<slice, level, pwms, duty, upset>>

\* slip: the output register is written, whatever the configuration
SetGPIOPlain(g, state) ==
    /\ gvars[g] # 0
    /\ pin' = [pin EXCEPT ![g].out = state, ![g].dir = "OUT"]
    /\ UNCHANGED <<gpios, gvars, slice, level, pwms, duty, upset>>

\* GPIOVariable::setBool: open drain and open source only switch the direction
SetGPIO(g, state) ==
    LET config == gpios[gvars[g]].config
        driven == CASE config \in {"OUTPUT_OPEN_DRAIN", "INPUT_PULLUP"} -> ~state
                    [] config \in {"OUTPUT_OPEN_SOURCE", "INPUT_PULLDOWN"} -> state
                    [] config \in {"INPUT", "OUTPUT"} -> FALSE
    IN  /\ gvars[g] # 0
        /\ IF config \in {"INPUT", "OUTPUT"} THEN pin' = [pin EXCEPT ![g].out = state]
           ELSE pin' = [pin EXCEPT ![g].dir = IF driven THEN "OUT" ELSE "IN"]
        /\ UNCHANGED <<gpios, gvars, slice, level, pwms, duty, upset>>

-----------------------------------------------------------------------------
(***************************************************************************)
(* PWM: two pins share a slice, and with it the wrap.                      *)
(***************************************************************************)
Clock == 125000000 \div 2    \* clk_sys halved, for the phase-correct mode

\* configurePWM: the most bits whose range still counts that fast
Bits(f)  == Max({b \in 1 .. 16 : f <= Clock \div 2 ^ b})
Valid(f) == f > 8 /\ f <= 4000000
WrapOf(f) == 2 ^ Bits(f) - 1

\* the pins a change of p's slice takes by surprise
Neighbours(p) == {q \in Pwms : q \div 2 = p \div 2 /\ q # p}
Reconfigured(p, f) ==
    /\ slice' = [slice EXCEPT ![p \div 2] = WrapOf(f)]
    /\ level' = [level EXCEPT ![p] = WrapOf(f) \div 2]

OpenPWM(p, f) ==
    /\ Len(gpios) + Len(pwms) < MaxPinOpens
    /\ Valid(f)
    /\ Reconfigured(p, f)
    /\ pwms' = Append(pwms, [pin |-> p, wrap |-> WrapOf(f)])
    /\ duty' = [duty EXCEPT ![p] = 50]
    /\ upset' = (upset \ {p}) \cup Neighbours(p)
    /\ UNCHANGED <<pin, gpios, gvars>>

\* The callbacks belong to the device of the pin's name opened last.
PwmDevice(p) == Max({i \in DOMAIN pwms : pwms[i].pin = p})
IsOpen(p) == \E i \in DOMAIN pwms : pwms[i].pin = p

\* .frequency: the level goes to one half, the .duty variable does not
SetFrequency(p, f) ==
    /\ IsOpen(p) /\ Valid(f)
    /\ Reconfigured(p, f)
    /\ pwms' = [pwms EXCEPT ![PwmDevice(p)].wrap = WrapOf(f)]
    /\ upset' = upset \cup Neighbours(p) \cup (IF duty[p] = 50 THEN {} ELSE {p})
    /\ UNCHANGED <<pin, gpios, gvars, duty>>

\* .duty: the level is computed from the wrap the device remembers
SetDuty(p, d) ==
    /\ IsOpen(p) /\ d \in 0 .. 100
    /\ level' = [level EXCEPT ![p] = (pwms[PwmDevice(p)].wrap * d) \div 100]
    /\ duty' = [duty EXCEPT ![p] = d]
    /\ upset' = IF pwms[PwmDevice(p)].wrap = slice[p \div 2] THEN upset \ {p}
                ELSE upset \cup {p}
    /\ UNCHANGED <<pin, gpios, gvars, slice, pwms>>

PNext ==
    \/ \E g \in Gpios, config \in Configurations : OpenGPIO(g, config)
    \/ \E g \in Gpios, state \in BOOLEAN : SetGPIO(g, state)
    \/ \E p \in Pwms, f \in Frequencies : OpenPWM(p, f) \/ SetFrequency(p, f)
    \/ \E p \in Pwms, d \in {0, 25, 100, 101} : SetDuty(p, d)

PSpec == PInit /\ [][PNext]_pvars

-----------------------------------------------------------------------------
Opened(g) == {i \in DOMAIN gpios : gpios[i].pin = g}

\* What a pin does to the wire is what it is configured for: an open drain
\* never drives it high and an open source never low, and a pulled input only
\* against its own pull, over any sequence of writes; and a PWM pin's pulse
\* has the width its .duty variable says.  A pin opened twice keeps the
\* variable of its first device and is left out, and so is a PWM pin whose
\* frequency, or whose slice's other pin, was set after its duty.
PinsAsConfigured ==
    /\ \A g \in Gpios : \A i \in Opened(g) :
          Opened(g) = {i} /\ pin[g].dir = "OUT" =>
              /\ gpios[i].config \in {"OUTPUT_OPEN_DRAIN", "INPUT_PULLUP"} => ~pin[g].out
              /\ gpios[i].config \in {"OUTPUT_OPEN_SOURCE", "INPUT_PULLDOWN"} => pin[g].out
              /\ gpios[i].config # "INPUT"
    /\ \A p \in Pwms \ upset :
          IsOpen(p) => level[p] = (slice[p \div 2] * duty[p]) \div 100
===============================================================================
