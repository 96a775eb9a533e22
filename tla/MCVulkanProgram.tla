--------------------------- MODULE MCVulkanProgram --------------------------
(* Programs of VulkanProgram on the whole generated surface. *)
EXTENDS VulkanProgram, VulkanCommands

\* The first version alone, and everything with a window.
MCBuilds == {{"VK_VERSION_1_0"}, DOMAIN Surface}

Common == {"Instance", "PhysicalDevice", "Device"}

\* Every kind is made by one of them, with what it is made from.
MCPrograms == {Common \cup kinds : kinds \in
    { {"SurfaceKHR", "SwapchainKHR", "Image", "Semaphore", "Fence", "Queue"},
      {"CommandPool", "CommandBuffer", "Buffer", "QueryPool"},
      {"DescriptorSetLayout", "DescriptorPool", "DescriptorSet", "DescriptorUpdateTemplate"},
      {"PipelineCache", "PipelineLayout", "Pipeline", "ShaderModule"},
      {"DeviceMemory", "Image", "ImageView", "Framebuffer", "RenderPass"},
      {"Buffer", "BufferView", "Event", "Sampler", "SamplerYcbcrConversion", "PrivateDataSlot"} }}

Kinds == UNION MCPrograms

\* The kinds a program may have two of: as a long long, 7 is -1.
Several == {"Device", "CommandBuffer", "DescriptorSet", "Pipeline", "Image", "Fence", "Buffer"}

MCWords == [k \in Kinds |-> IF k \in Several THEN {1, 7} ELSE {7}]

MCNumbers == {-1, 1}
=============================================================================
