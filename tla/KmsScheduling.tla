---------------------------- MODULE KmsScheduling ----------------------------
(***************************************************************************)
(* The scheduling priority of the KMS thread: what the thread records and  *)
(* asks RealtimeKit for (src/backends/native/meta-thread.c), and who holds *)
(* an inhibition of real-time scheduling: the probing of devices           *)
(* (meta-kms-impl.c), a device that awaits its first mode set, and the     *)
(* calls into the kernel that may take long (meta-kms-impl-device.c). A    *)
(* render device without GBM turns the kernel thread into a user thread    *)
(* for as long as it lives (meta-kms.c:627-644).                           *)
(*                                                                         *)
(* Tasks run in the order they are posted and a change of thread type runs *)
(* what was posted before it (module MetaThread), so one task is one step. *)
(* The names differ from those of MetaThread: MetaThreadProofs is about    *)
(* both modules.                                                           *)
(***************************************************************************)
EXTENDS Integers, FiniteSets

CONSTANTS
    Devices,            \* KMS devices
    Preferred,          \* preferred_scheduling_priority
    MaxRenderDevices    \* bound on render devices that inhibit the kernel thread

ASSUME SchedulingAssumption ==
    /\ Preferred \in {"NORMAL", "REALTIME", "HIGH_PRIORITY"}
    /\ MaxRenderDevices \in Nat
    /\ IsFiniteSet(Devices)

VARIABLES
    thread_type,    \* "USER" or "KERNEL"
    inhibits,       \* kernel_thread_inhibit_count
    render_devices, \* render devices there have been
    th,             \* the thread: count (realtime_inhibit_count), recorded
                    \* (kernel.scheduling_priority), actual (of the OS thread),
                    \* refused (RealtimeKit refused a request)
    probed,         \* meta_kms_notify_probed was called
    device,         \* per device: "absent", "pending" (realtime_inhibited_-
                    \* pending_mode_set) or "set"
    slow            \* the priority at which the last slow call was made

schedulingVars == <<thread_type, inhibits, render_devices, th, probed, device, slow>>

-----------------------------------------------------------------------------
(* The priority sync_scheduling_priority_in_impl computes.                 *)
ShouldUse(t) ==
    IF Preferred = "REALTIME"
    THEN IF t.count = 0 THEN "REALTIME" ELSE "NORMAL"
    ELSE Preferred

(* sync_scheduling_priority_in_impl: only a change is requested, and only  *)
(* a granted request is recorded.                                          *)
sync_scheduling_priority_in_impl(t) ==
    LET p == ShouldUse(t) IN
    IF p = t.recorded THEN {t}
    ELSE {[t EXCEPT !.recorded = p, !.actual = p]}
           \cup {[t EXCEPT !.refused = TRUE]}

inhibit_realtime_unsynced(t) == {[t EXCEPT !.count = @ + 1]} \* mutant: no sync
meta_thread_inhibit_realtime_in_impl(t) ==
    LET u == [t EXCEPT !.count = @ + 1] IN
    IF thread_type = "USER" THEN {t}
    ELSE IF u.count = 1 THEN sync_scheduling_priority_in_impl(u) ELSE {u}

meta_thread_uninhibit_realtime_in_impl(t) ==
    LET u == [t EXCEPT !.count = @ - 1] IN
    IF thread_type = "USER" THEN {t}
    ELSE IF u.count = 0 THEN sync_scheduling_priority_in_impl(u) ELSE {u}

(* thread_impl_func: a new kernel thread starts with no inhibition, takes  *)
(* the one of meta_kms_impl_setup, and is synchronised; what the last one  *)
(* recorded is still there.                                                *)
thread_impl_func(t) ==
    LET fresh == [t EXCEPT !.count = 0, !.actual = "NORMAL"]
        kernel(u) == IF u.count + 1 = 1
                     THEN sync_scheduling_priority_in_impl([u EXCEPT !.count = @ + 1])
                     ELSE {[u EXCEPT !.count = @ + 1]}
    IN UNION {sync_scheduling_priority_in_impl(u) : u \in kernel(fresh)}

SchedulingInit ==
    /\ thread_type = "KERNEL"
    /\ inhibits = 0 /\ render_devices = 0
    /\ th \in thread_impl_func([count |-> 0, recorded |-> "NORMAL", actual |-> "NORMAL",
                                refused |-> FALSE])
    /\ probed = FALSE
    /\ device = [d \in Devices |-> "absent"]
    /\ slow = "NORMAL"

-----------------------------------------------------------------------------
(* A KMS device is added: it inhibits real-time scheduling until its first *)
(* mode set, unless it has no CRTCs.                                       *)
AddDevice(d) ==
    /\ device[d] = "absent"
    /\ \E u \in meta_thread_inhibit_realtime_in_impl(th) :
         \/ th' = u /\ device' = [device EXCEPT ![d] = "pending"]
         \/ /\ th' \in meta_thread_uninhibit_realtime_in_impl(u)
            /\ device' = [device EXCEPT ![d] = "set"]
    /\ UNCHANGED <<thread_type, inhibits, render_devices, probed, slow>>

(* meta_kms_impl_device_finalize, after the device was removed.            *)
RemoveDevice(d) ==
    /\ device[d] # "absent"
    /\ th' \in IF device[d] = "pending"
               THEN meta_thread_uninhibit_realtime_in_impl(th) ELSE {th}
    /\ device' = [device EXCEPT ![d] = "absent"]
    /\ UNCHANGED <<thread_type, inhibits, render_devices, probed, slow>>

(* process_mode_set_update: the commit is made with an inhibition of its   *)
(* own, and the first one gives up the inhibition of the device.           *)
ProcessModeSet(d) ==
    /\ device[d] # "absent" /\ probed
    /\ \E u \in meta_thread_inhibit_realtime_in_impl(th) :
         /\ slow' = IF thread_type = "USER" THEN "NORMAL" ELSE u.actual
         /\ \E v \in meta_thread_uninhibit_realtime_in_impl(u) :
              th' \in IF device[d] = "pending"
                      THEN meta_thread_uninhibit_realtime_in_impl(v) ELSE {v}
    /\ device' = [device EXCEPT ![d] = "set"]
    /\ UNCHANGED <<thread_type, inhibits, render_devices, probed>>

(* meta_kms_impl_device_update_states after a hotplug, and disable: an     *)
(* inhibition around calls into the kernel, released on every path.        *)
SlowCall(d) ==
    /\ device[d] # "absent"
    /\ \E u \in meta_thread_inhibit_realtime_in_impl(th) :
         /\ slow' = IF thread_type = "USER" THEN "NORMAL" ELSE u.actual
         /\ th' \in meta_thread_uninhibit_realtime_in_impl(u)
    /\ UNCHANGED <<thread_type, inhibits, render_devices, probed, device>>

(* meta_backend_native_initable_init after all devices were tried.         *)
meta_kms_notify_probed ==
    /\ ~probed
    /\ probed' = TRUE
    /\ th' \in meta_thread_uninhibit_realtime_in_impl(th)
    /\ UNCHANGED <<thread_type, inhibits, render_devices, device, slow>>

(* A render device that needs EGLStreams comes and goes. The count lives in*)
(* MetaKms, and the type changes when it leaves or returns to zero.        *)
meta_kms_inhibit_kernel_thread ==
    /\ inhibits = 0 /\ render_devices < MaxRenderDevices
    /\ inhibits' = 1 /\ render_devices' = render_devices + 1
    /\ thread_type' = "USER"
    /\ UNCHANGED <<th, probed, device, slow>>

meta_kms_uninhibit_kernel_thread ==
    /\ inhibits = 1
    /\ inhibits' = 0
    /\ thread_type' = "KERNEL"
    /\ th' \in thread_impl_func(th)
    /\ UNCHANGED <<render_devices, probed, device, slow>>

SchedulingNext ==
    \/ \E d \in Devices :
         AddDevice(d) \/ RemoveDevice(d) \/ ProcessModeSet(d) \/ SlowCall(d)
    \/ meta_kms_notify_probed
    \/ meta_kms_inhibit_kernel_thread \/ meta_kms_uninhibit_kernel_thread

SchedulingSpec == SchedulingInit /\ [][SchedulingNext]_schedulingVars

-----------------------------------------------------------------------------
Holders == {d \in Devices : device[d] = "pending"}

(* Type invariant. As long as the thread type was never changed, the count *)
(* is that of the inhibitions held: the one of the probing and one per     *)
(* device that awaits a mode set.                                          *)
SchedulingTypeOK ==
    /\ thread_type \in {"USER", "KERNEL"} /\ inhibits \in 0..1
    /\ th.count \in Int
    /\ th.recorded \in {"NORMAL", "REALTIME", "HIGH_PRIORITY"}
    /\ device \in [Devices -> {"absent", "pending", "set"}]
    /\ (render_devices = 0 => th.count = Cardinality(Holders) + (IF probed THEN 0 ELSE 1))

(* A call into the kernel that may take longer than a real-time thread may *)
(* run is not made with real-time priority, if RealtimeKit grants what is  *)
(* asked (meta-kms-impl-device.c:2176, 2241 and 1150).                     *)
NoRealtimeModeSet == slow = "REALTIME" => th.refused

(* The thread has the priority that was announced for it when nobody       *)
(* inhibits it: thread_impl_func says which that is (meta-thread.c:548).   *)
PriorityIsReal ==
    thread_type = "KERNEL" /\ probed /\ Holders = {} => th.actual = Preferred \/ th.refused

(* As long as no render device has changed the thread type, slow calls are *)
(* made at normal priority and the thread has its priority back when the   *)
(* last inhibition is released, whatever devices come, fail and go.        *)
Undisturbed == SchedulingTypeOK /\ (render_devices = 0 => NoRealtimeModeSet /\ PriorityIsReal)
=============================================================================
